---- MODULE Spec2Model ----
(***************************************************************************)
(* GainChef session orchestration engine (src/src/server.ts,               *)
(* src/src/utils.ts): the per-session State Store, the rate limiter and    *)
(* the five tool operations and the chat turn (onChatMessage).             *)
(*                                                                         *)
(* Conventions of the model:                                               *)
(*   - the State Store is a function from the keys that are present to the *)
(*     stored values; an absent key is a key outside its DOMAIN;           *)
(*   - a storage key is a tuple: <<"profile">>, <<"daily-macros:", d>>;    *)
(*   - a calendar date (the yyyy-mm-dd string of toISOString) is the       *)
(*     number of the UTC day; localeCompare on such strings is the order   *)
(*     of the day numbers;                                                 *)
(*   - numbers are integers;                                               *)
(*   - time is counted in seconds: the timestamp t of the model stands for *)
(*     Date.now() = 1000 * t milliseconds.                                 *)
(***************************************************************************)
EXTENDS Integers, Sequences, FiniteSets, TLC

VARIABLES
    storage,    \* this.ctx.storage of the one session (Durable Object)
    now,        \* Date.now()
    last,       \* the most recent operation: its name, input and outcome
    rlLog,      \* every bumpRateLimit call so far: <<[at, ok]>>
    phase,      \* where the chat turn of the session stands; with racing
                \* requests, the place of each request in its call
    step,       \* generation steps of the turn that have finished
    modelInfo,  \* the ResolvedModel of the turn, or Null
    attempts,   \* the runModel calls of the turn, in order
    response,   \* the chunks written to the response stream (writer)
    inFlight,   \* chunks of the model's stream that writer.merge has not
                \* forwarded yet
    aborted,    \* options.abortSignal.aborted
    turn        \* what the turn has done: the store at its start, the keys
                \* read for context, the tools dispatched, the narrations;
                \* with racing requests, what each request has read

\* the variables of the chat turn
turnVars == <<modelInfo, attempts, response, inFlight, aborted, turn>>

vars == <<storage, now, last, rlLog, phase, step, turnVars>>

----------------------------------------------------------------------------
(* Program constants                                                       *)

MAX_STORED_MEAL_HISTORY == 30
MAX_MEAL_PLAN_HISTORY == 5
\* 10 * 60 * 1000 ms, in seconds
RATE_LIMIT_WINDOW_MS == 10 * 60
RATE_LIMIT_MAX_REQUESTS == 20
\* maxSteps of the streamText call
MAX_STEPS == 3
\* the length of a UTC day, in seconds
SECONDS_PER_DAY == 24 * 60 * 60

STORAGE_KEYS ==
    [ PROFILE           |-> <<"profile">>,
      MEAL_DAILY_PREFIX |-> "daily-macros:",
      MEAL_DATES        |-> <<"daily-macros:dates">>,
      MEAL_PLAN_ACTIVE  |-> <<"meal-plan:active">>,
      MEAL_PLAN_HISTORY |-> <<"meal-plan:history">>,
      SHOPPING_LISTS    |-> <<"shopping-lists">> ]

RATE_LIMIT_KEY == <<"rate-limit">>

\* the value of an optional string field that is not supplied
Undefined == "undefined"

EMPTY_TOTALS == [protein |-> 0, carbs |-> 0, fat |-> 0, calories |-> 0]

----------------------------------------------------------------------------
(* Bounds of the model                                                     *)

MaxCalls == 22          \* bumpRateLimit calls explored
MaxWindows == 1         \* the clock runs to MaxWindows windows (plus 2 s)

MaxMeals == 3           \* meals stored across all days

\* the meals that are logged: food and macros (without id and timestamp)
MealFoods ==
    [ eggs  |-> [food |-> "3 eggs", mealType |-> "breakfast", protein |-> 18,
                 carbs |-> 1, fat |-> 15, calories |-> 210, notes |-> Undefined],
      toast |-> [food |-> "toast", mealType |-> Undefined, protein |-> 4,
                 carbs |-> 24, fat |-> 2, calories |-> 140, notes |-> Undefined] ]

\* timestamps handed to agent.logMeal: two on day 1, one on day 2, one on day 0
MealTimes == { SECONDS_PER_DAY + 100, SECONDS_PER_DAY + 200, 2 * SECONDS_PER_DAY, 500 }

\* values crypto.randomUUID() can return
UUIDs == { "uuid-a", "uuid-b" }

SeedDays == 28          \* days logged one after the other in the dates run
MaxNewMeals == 4        \* meals logged after that, on any day of DayChoices

\* the days logged in the dates run: an old one, and the days around the cap
DayChoices == {1} \cup ((SeedDays - 1) .. (SeedDays + MaxNewMeals))

PlanIdCount == 6        \* distinct plan ids handed to agent.saveMealPlan

PlanIds == { "plan-" \o ToString(i) : i \in 1..PlanIdCount }

\* the days of a plan, as stored
PlanEntry ==
    [mealType |-> "breakfast", name |-> "Omelette", description |-> "eggs",
     macros |-> [protein |-> 30, carbs |-> 5, fat |-> 20, calories |-> 320],
     ingredients |-> <<"eggs">>, preparationSteps |-> <<"whisk", "fry">>]

PlanDay(date) ==
    [date |-> date, goalSummary |-> "high protein", meals |-> <<PlanEntry>>]

PlanDaysChoices == { <<PlanDay("2025-01-01")>>,
                     <<PlanDay("2025-01-01"), PlanDay("2025-01-02")>> }

MaxNow == MaxWindows * RATE_LIMIT_WINDOW_MS + 2

\* steps of the clock: half a window, and one second more than that
TickSteps == { RATE_LIMIT_WINDOW_MS \div 2, (RATE_LIMIT_WINDOW_MS \div 2) + 1 }

----------------------------------------------------------------------------
(* State Store                                                             *)

EmptyStorage == <<>>

\* storageGet(key) ?? dflt
storageGet(s, key, dflt) == IF key \in DOMAIN s THEN s[key] ELSE dflt

storagePut(s, key, value) ==
    [k \in (DOMAIN s) \cup {key} |-> IF k = key THEN value ELSE s[k]]

\* object spread {...a, ...b}
Spread(a, b) ==
    [k \in (DOMAIN a) \cup (DOMAIN b) |-> IF k \in DOMAIN b THEN b[k] ELSE a[k]]

----------------------------------------------------------------------------
(* Rate limiter                                                            *)

bumpRateLimit_OffByOne(s, t) ==
    LET loaded == storageGet(s, RATE_LIMIT_KEY,
                             [count |-> 0, reset |-> t + RATE_LIMIT_WINDOW_MS])
        record == IF t > loaded.reset
                  THEN [count |-> 0, reset |-> t + RATE_LIMIT_WINDOW_MS]
                  ELSE loaded
    IN  IF record.count > RATE_LIMIT_MAX_REQUESTS
        THEN [ok |-> FALSE, storage |-> storagePut(s, RATE_LIMIT_KEY, record)]
        ELSE [ok |-> TRUE,
              storage |-> storagePut(s, RATE_LIMIT_KEY,
                                     [record EXCEPT !.count = @ + 1])]

bumpRateLimit_NoCountReset(s, t) ==
    LET loaded == storageGet(s, RATE_LIMIT_KEY,
                             [count |-> 0, reset |-> t + RATE_LIMIT_WINDOW_MS])
        record == IF t > loaded.reset
                  THEN [loaded EXCEPT !.reset = t + RATE_LIMIT_WINDOW_MS]
                  ELSE loaded
    IN  IF record.count >= RATE_LIMIT_MAX_REQUESTS
        THEN [ok |-> FALSE, storage |-> storagePut(s, RATE_LIMIT_KEY, record)]
        ELSE [ok |-> TRUE,
              storage |-> storagePut(s, RATE_LIMIT_KEY,
                                     [record EXCEPT !.count = @ + 1])]

\* bumpRateLimit at time t on store s: the returned boolean and the store
bumpRateLimit(s, t) ==
    LET loaded == storageGet(s, RATE_LIMIT_KEY,
                             [count |-> 0, reset |-> t + RATE_LIMIT_WINDOW_MS])
        record == IF t > loaded.reset
                  THEN [count |-> 0, reset |-> t + RATE_LIMIT_WINDOW_MS]
                  ELSE loaded
    IN  IF record.count >= RATE_LIMIT_MAX_REQUESTS
        THEN [ok |-> FALSE, storage |-> storagePut(s, RATE_LIMIT_KEY, record)]
        ELSE [ok |-> TRUE,
              storage |-> storagePut(s, RATE_LIMIT_KEY,
                                     [record EXCEPT !.count = @ + 1])]


----------------------------------------------------------------------------
(* Daily macros: meals, totals and the dates index                         *)


\* Array.prototype.sort((a, b) => a.timestamp - b.timestamp): a stable sort,
\* each element goes behind the elements that do not compare greater
RECURSIVE SortByTimestamp(_)
SortByTimestamp(meals) ==
    IF meals = <<>> THEN <<>>
    ELSE LET sorted == SortByTimestamp(SubSeq(meals, 1, Len(meals) - 1))
             m == meals[Len(meals)]
             n == Cardinality({ i \in DOMAIN sorted :
                                  sorted[i].timestamp <= m.timestamp })
         IN  SubSeq(sorted, 1, n) \o <<m>> \o SubSeq(sorted, n + 1, Len(sorted))

\* Array.prototype.sort((a, b) => b.localeCompare(a)) on date strings
RECURSIVE SortDatesDesc(_)
SortDatesDesc(dates) ==
    IF dates = <<>> THEN <<>>
    ELSE LET sorted == SortDatesDesc(SubSeq(dates, 1, Len(dates) - 1))
             d == dates[Len(dates)]
             n == Cardinality({ i \in DOMAIN sorted : sorted[i] >= d })
         IN  SubSeq(sorted, 1, n) \o <<d>> \o SubSeq(sorted, n + 1, Len(sorted))

\* Array.prototype.slice(0, n)
Slice(seq, n) == SubSeq(seq, 1, IF Len(seq) < n THEN Len(seq) ELSE n)

\* toDateString(new Date(timestamp)): the UTC calendar day of a timestamp
toDateString(timestamp) == timestamp \div SECONDS_PER_DAY

getDailyKey(date) == <<STORAGE_KEYS.MEAL_DAILY_PREFIX, date>>

RECURSIVE computeTotals_SkipFirst(_)
computeTotals_SkipFirst(meals) ==
    IF Len(meals) <= 1 THEN EMPTY_TOTALS
    ELSE LET totals == computeTotals_SkipFirst(SubSeq(meals, 1, Len(meals) - 1))
             meal == meals[Len(meals)]
         IN  [protein  |-> totals.protein + meal.protein,
              carbs    |-> totals.carbs + meal.carbs,
              fat      |-> totals.fat + meal.fat,
              calories |-> totals.calories + meal.calories]

\* meals.reduce(..., {...EMPTY_TOTALS})
RECURSIVE computeTotals(_)
computeTotals(meals) ==
    IF meals = <<>> THEN EMPTY_TOTALS
    ELSE LET totals == computeTotals(SubSeq(meals, 1, Len(meals) - 1))
             meal == meals[Len(meals)]
         IN  [protein  |-> totals.protein + meal.protein,
              carbs    |-> totals.carbs + meal.carbs,
              fat      |-> totals.fat + meal.fat,
              calories |-> totals.calories + meal.calories]

\* readDaily(date) ?? null is handled by the callers through HasDaily
HasDaily(s, date) == getDailyKey(date) \in DOMAIN s
readDaily(s, date) == s[getDailyKey(date)]

writeDaily(s, day) == storagePut(s, getDailyKey(day.date), day)

updateMealDates_Ascending(s, date) ==
    LET dates == storageGet(s, STORAGE_KEYS.MEAL_DATES, <<>>)
        pushed == IF \E i \in DOMAIN dates : dates[i] = date
                  THEN dates ELSE Append(dates, date)
        desc == SortDatesDesc(pushed)
        asc == [i \in DOMAIN desc |-> desc[Len(desc) + 1 - i]]
    IN  storagePut(s, STORAGE_KEYS.MEAL_DATES,
                   Slice(asc, MAX_STORED_MEAL_HISTORY))

updateMealDates(s, date) ==
    LET dates == storageGet(s, STORAGE_KEYS.MEAL_DATES, <<>>)
        pushed == IF \E i \in DOMAIN dates : dates[i] = date
                  THEN dates ELSE Append(dates, date)
        ordered == Slice(SortDatesDesc(pushed), MAX_STORED_MEAL_HISTORY)
    IN  storagePut(s, STORAGE_KEYS.MEAL_DATES, ordered)

logMeal_ReplacesDay(s, meal, t, uuid) ==
    LET timestamp == IF "timestamp" \in DOMAIN meal THEN meal.timestamp ELSE t
        date == toDateString(timestamp)
        normalizedMeal ==
            Spread(meal, [id |-> IF "id" \in DOMAIN meal THEN meal.id ELSE uuid,
                          timestamp |-> timestamp])
        meals == << normalizedMeal >>
        totals == computeTotals(meals)
        updated == [date |-> date, meals |-> meals, totals |-> totals]
    IN  [day |-> updated,
         storage |-> updateMealDates(writeDaily(s, updated), date)]

logMeal_TotalsOfNewMeal(s, meal, t, uuid) ==
    LET timestamp == IF "timestamp" \in DOMAIN meal THEN meal.timestamp ELSE t
        date == toDateString(timestamp)
        normalizedMeal ==
            Spread(meal, [id |-> IF "id" \in DOMAIN meal THEN meal.id ELSE uuid,
                          timestamp |-> timestamp])
        existing == IF HasDaily(s, date) THEN readDaily(s, date).meals ELSE <<>>
        meals == SortByTimestamp(Append(existing, normalizedMeal))
        totals == computeTotals(<<normalizedMeal>>)
        updated == [date |-> date, meals |-> meals, totals |-> totals]
    IN  [day |-> updated,
         storage |-> updateMealDates(writeDaily(s, updated), date)]

logMeal_StaleTotals(s, meal, t, uuid) ==
    LET timestamp == IF "timestamp" \in DOMAIN meal THEN meal.timestamp ELSE t
        date == toDateString(timestamp)
        normalizedMeal ==
            Spread(meal, [id |-> IF "id" \in DOMAIN meal THEN meal.id ELSE uuid,
                          timestamp |-> timestamp])
        existing == IF HasDaily(s, date) THEN readDaily(s, date).meals ELSE <<>>
        meals == SortByTimestamp(Append(existing, normalizedMeal))
        totals == computeTotals(existing)
        updated == [date |-> date, meals |-> meals, totals |-> totals]
    IN  [day |-> updated,
         storage |-> updateMealDates(writeDaily(s, updated), date)]

\* GainChefAgent.logMeal(meal) at time t; uuid is what crypto.randomUUID()
\* returns when the meal carries no id.  The updated day and the store.
logMeal(s, meal, t, uuid) ==
    LET timestamp == IF "timestamp" \in DOMAIN meal THEN meal.timestamp ELSE t
        date == toDateString(timestamp)
        normalizedMeal ==
            Spread(meal, [id |-> IF "id" \in DOMAIN meal THEN meal.id ELSE uuid,
                          timestamp |-> timestamp])
        existing == IF HasDaily(s, date) THEN readDaily(s, date).meals ELSE <<>>
        meals == SortByTimestamp(Append(existing, normalizedMeal))
        totals == computeTotals(meals)
        updated == [date |-> date, meals |-> meals, totals |-> totals]
    IN  [day |-> updated,
         storage |-> updateMealDates(writeDaily(s, updated), date)]

\* getDailyMacros(date)
getDailyMacros(s, date) ==
    IF HasDaily(s, date) THEN readDaily(s, date)
    ELSE [date |-> date, meals |-> <<>>, totals |-> EMPTY_TOTALS]

\* getMealHistory(limit): the stored days of the first `limit` index entries
getMealHistory(s, limit) ==
    LET storedDates == storageGet(s, STORAGE_KEYS.MEAL_DATES, <<>>)
        ordered == Slice(SortDatesDesc(storedDates), limit)
        present == { i \in DOMAIN ordered : HasDaily(s, ordered[i]) }
        \* results.filter(Boolean): the i-th kept entry
        nth(k) == CHOOSE i \in present :
                      Cardinality({ j \in present : j <= i }) = k
    IN  [k \in 1..Cardinality(present) |-> readDaily(s, ordered[nth(k)])]

----------------------------------------------------------------------------
(* Profile, meal plans and shopping lists                                  *)

\* A profile is an object whose fields hold <<v>> (the value v) or <<>>
\* (the key is present and holds undefined).
UndefinedValue == <<>>
Some(v) == <<v>>

\* the value a reader of object[key] sees: undefined for an absent key too
FieldOf(object, key) ==
    IF key \in DOMAIN object THEN object[key] ELSE UndefinedValue

\* getProfile() ?? {}
getProfileOrEmpty(s) == storageGet(s, STORAGE_KEYS.PROFILE, <<>>)

\* setProfile(profile) at time t: the merged profile and the store
setProfile(s, profile, t) ==
    LET existing == getProfileOrEmpty(s)
        merged == Spread(Spread(existing, profile), [updatedAt |-> Some(t)])
    IN  [profile |-> merged,
         storage |-> storagePut(s, STORAGE_KEYS.PROFILE, merged)]

HasActivePlan(s) == STORAGE_KEYS.MEAL_PLAN_ACTIVE \in DOMAIN s
\* getLatestMealPlan(), when it is not null
getLatestMealPlan(s) == s[STORAGE_KEYS.MEAL_PLAN_ACTIVE]

\* history.filter((item) => item.id !== id)
WithoutId(history, id) ==
    LET Other(item) == item.id # id IN SelectSeq(history, Other)

saveMealPlan_NoDedup(s, plan) ==
    LET s1 == storagePut(s, STORAGE_KEYS.MEAL_PLAN_ACTIVE, plan)
        history == storageGet(s1, STORAGE_KEYS.MEAL_PLAN_HISTORY, <<>>)
        deduped == Slice(<<plan>> \o history, MAX_MEAL_PLAN_HISTORY)
    IN  storagePut(s1, STORAGE_KEYS.MEAL_PLAN_HISTORY, deduped)

\* saveMealPlan(plan)
saveMealPlan(s, plan) ==
    LET s1 == storagePut(s, STORAGE_KEYS.MEAL_PLAN_ACTIVE, plan)
        history == storageGet(s1, STORAGE_KEYS.MEAL_PLAN_HISTORY, <<>>)
        deduped == Slice(<<plan>> \o WithoutId(history, plan.id),
                         MAX_MEAL_PLAN_HISTORY)
    IN  storagePut(s1, STORAGE_KEYS.MEAL_PLAN_HISTORY, deduped)

\* getMealPlanHistory()
getMealPlanHistory(s) ==
    Slice(storageGet(s, STORAGE_KEYS.MEAL_PLAN_HISTORY, <<>>),
          MAX_MEAL_PLAN_HISTORY)

\* saveShoppingList(list): the map is keyed by list id
saveShoppingList(s, list) ==
    LET existing == storageGet(s, STORAGE_KEYS.SHOPPING_LISTS, <<>>)
        updated == Spread(existing, [id \in {list.id} |-> list])
    IN  storagePut(s, STORAGE_KEYS.SHOPPING_LISTS, updated)

----------------------------------------------------------------------------
(* Tool inputs: JSON values and the zod schemas                            *)

\* A tool input is a JSON value carrying its type.  An object is a function
\* from its keys to JSON values, an array is a sequence of JSON values.
Num(n) == [type |-> "number", val |-> n]
Str(x) == [type |-> "string", val |-> x]
Arr(a) == [type |-> "array", val |-> a]
Obj(o) == [type |-> "object", val |-> o]

\* the parsed value of a JSON value, all tags removed
RECURSIVE Plain(_)
Plain(v) ==
    CASE v.type = "array"  -> [i \in DOMAIN v.val |-> Plain(v.val[i])]
      [] v.type = "object" -> [k \in DOMAIN v.val |-> Plain(v.val[k])]
      [] OTHER -> v.val

\* z.number().min(0)
IsNumberMin0(v) == v.type = "number" /\ v.val >= 0
\* z.string()
IsString(v) == v.type = "string"
\* z.string().min(n)
IsStringMin(v, n) == v.type = "string" /\ Len(v.val) >= n
\* z.enum(values)
IsEnum(v, values) == v.type = "string" /\ v.val \in values
\* z.array(z.string()).min(n)
IsStringArrayMin(v, n) ==
    /\ v.type = "array"
    /\ Len(v.val) >= n
    /\ \A i \in DOMAIN v.val : IsString(v.val[i])

\* a required and an optional key of a z.object
Required(o, key, Check(_)) == key \in DOMAIN o /\ Check(o[key])
Optional(o, key, Check(_)) == key \in DOMAIN o => Check(o[key])

MealTypes == {"breakfast", "lunch", "dinner", "snack", "post-workout"}
mealTypeSchema(v) == IsEnum(v, MealTypes)

macroTargetSchema(v) ==
    /\ v.type = "object"
    /\ Required(v.val, "protein", IsNumberMin0)
    /\ Required(v.val, "carbs", IsNumberMin0)
    /\ Required(v.val, "fat", IsNumberMin0)
    /\ Required(v.val, "calories", IsNumberMin0)

\* macroTargetSchema.partial()
macroTargetsSchema(v) ==
    /\ v.type = "object"
    /\ Optional(v.val, "protein", IsNumberMin0)
    /\ Optional(v.val, "carbs", IsNumberMin0)
    /\ Optional(v.val, "fat", IsNumberMin0)
    /\ Optional(v.val, "calories", IsNumberMin0)

mealLogSchema_AllowNegative(v) ==
    /\ v.type = "object"
    /\ LET IsFood(x) == IsStringMin(x, 2)
           IsNumber(x) == x.type = "number"
       IN  /\ Required(v.val, "food", IsFood)
           /\ Optional(v.val, "mealType", mealTypeSchema)
           /\ Required(v.val, "protein", IsNumber)
           /\ Required(v.val, "carbs", IsNumberMin0)
           /\ Required(v.val, "fat", IsNumberMin0)
           /\ Required(v.val, "calories", IsNumberMin0)
           /\ Optional(v.val, "notes", IsString)

mealLogSchema(v) ==
    /\ v.type = "object"
    /\ LET IsFood(x) == IsStringMin(x, 2)
       IN  /\ Required(v.val, "food", IsFood)
           /\ Optional(v.val, "mealType", mealTypeSchema)
           /\ Required(v.val, "protein", IsNumberMin0)
           /\ Required(v.val, "carbs", IsNumberMin0)
           /\ Required(v.val, "fat", IsNumberMin0)
           /\ Required(v.val, "calories", IsNumberMin0)
           /\ Optional(v.val, "notes", IsString)

GoalTypes == {"bulking", "cutting", "recomposition", "maintaining"}
Sexes == {"male", "female", "non-binary"}
ActivityLevels == {"sedentary", "light", "moderate", "intense"}

\* the keys of profileUpdateSchema
ProfileFields ==
    {"name", "goalType", "weight", "targetWeight", "heightInches", "age",
     "sex", "activityLevel", "macroTargets", "restrictions", "preferences",
     "timezone"}

profileUpdateSchema(v) ==
    /\ v.type = "object"
    /\ LET IsGoal(x) == IsEnum(x, GoalTypes)
           IsSex(x) == IsEnum(x, Sexes)
           IsActivity(x) == IsEnum(x, ActivityLevels)
           IsStrings(x) == IsStringArrayMin(x, 0)
       IN  /\ Optional(v.val, "name", IsString)
           /\ Optional(v.val, "goalType", IsGoal)
           /\ Optional(v.val, "weight", IsNumberMin0)
           /\ Optional(v.val, "targetWeight", IsNumberMin0)
           /\ Optional(v.val, "heightInches", IsNumberMin0)
           /\ Optional(v.val, "age", IsNumberMin0)
           /\ Optional(v.val, "sex", IsSex)
           /\ Optional(v.val, "activityLevel", IsActivity)
           /\ Optional(v.val, "macroTargets", macroTargetsSchema)
           /\ Optional(v.val, "restrictions", IsStrings)
           /\ Optional(v.val, "preferences", IsStrings)
           /\ Optional(v.val, "timezone", IsString)

\* the inputSchema of getProgress: days is an integer in 1..30
MinProgressDays == 1
MaxProgressDays == 30
DefaultProgressDays == 3

progressSchema(v) ==
    /\ v.type = "object"
    /\ LET IsDays(x) == /\ x.type = "number"
                        /\ x.val >= MinProgressDays
                        /\ x.val <= MaxProgressDays
       IN  Optional(v.val, "days", IsDays)

mealPlanEntrySchema(v) ==
    /\ v.type = "object"
    /\ LET IsName(x) == IsStringMin(x, 2)
           IsStrings1(x) == IsStringArrayMin(x, 1)
       IN  /\ Required(v.val, "mealType", mealTypeSchema)
           /\ Required(v.val, "name", IsName)
           /\ Required(v.val, "description", IsString)
           /\ Required(v.val, "macros", macroTargetSchema)
           /\ Required(v.val, "ingredients", IsStrings1)
           /\ Required(v.val, "preparationSteps", IsStrings1)

mealPlanDaySchema(v) ==
    /\ v.type = "object"
    /\ LET IsMeals(x) == /\ x.type = "array"
                         /\ Len(x.val) >= 1
                         /\ \A i \in DOMAIN x.val : mealPlanEntrySchema(x.val[i])
       IN  /\ Required(v.val, "date", IsString)
           /\ Required(v.val, "goalSummary", IsString)
           /\ Required(v.val, "meals", IsMeals)

Timeframes == {"daily", "weekly"}

mealPlanSchema(v) ==
    /\ v.type = "object"
    /\ LET IsTimeframe(x) == IsEnum(x, Timeframes)
           IsDays(x) == /\ x.type = "array"
                        /\ Len(x.val) >= 1
                        /\ \A i \in DOMAIN x.val : mealPlanDaySchema(x.val[i])
       IN  /\ Optional(v.val, "id", IsString)
           /\ Optional(v.val, "timeframe", IsTimeframe)
           /\ Required(v.val, "days", IsDays)
           /\ Optional(v.val, "shoppingListId", IsString)

shoppingItemSchema(v) ==
    /\ v.type = "object"
    /\ LET IsStrings(x) == IsStringArrayMin(x, 0)
       IN  /\ Required(v.val, "name", IsString)
           /\ Required(v.val, "quantity", IsString)
           /\ Required(v.val, "mealReferences", IsStrings)

shoppingListSchema(v) ==
    /\ v.type = "object"
    /\ LET IsTimeframe(x) == IsEnum(x, Timeframes)
           IsItems(x) == /\ x.type = "array"
                         /\ Len(x.val) >= 1
                         /\ \A i \in DOMAIN x.val : shoppingItemSchema(x.val[i])
       IN  /\ Optional(v.val, "id", IsString)
           /\ Optional(v.val, "planId", IsString)
           /\ Optional(v.val, "timeframe", IsTimeframe)
           /\ Required(v.val, "items", IsItems)

----------------------------------------------------------------------------
(* The five tool operations (execute of each tool)                         *)

CONTEXT_UNAVAILABLE == "GainChef agent context unavailable"
VALIDATION_FAILED == "invalid tool input"

\* the outcome of one tool call: the returned text (as a record), or the
\* error thrown; the store afterwards and the keys read on the way
Returned(result, s, reads) ==
    [ok |-> TRUE, error |-> "", result |-> result, storage |-> s,
     reads |-> reads]
Thrown(error, s) ==
    [ok |-> FALSE, error |-> error, result |-> <<>>, storage |-> s,
     reads |-> {}]

\* the output of mealLogSchema: optional strings that are not supplied are
\* undefined
ParseMealLog(v) ==
    [food     |-> v.val.food.val,
     mealType |-> IF "mealType" \in DOMAIN v.val THEN v.val.mealType.val
                  ELSE Undefined,
     protein  |-> v.val.protein.val,
     carbs    |-> v.val.carbs.val,
     fat      |-> v.val.fat.val,
     calories |-> v.val.calories.val,
     notes    |-> IF "notes" \in DOMAIN v.val THEN v.val.notes.val
                  ELSE Undefined]

\* logMeal.execute(input)
logMealTool(s, v, agent, t) ==
    IF ~agent THEN Thrown(CONTEXT_UNAVAILABLE, s)
    ELSE LET input == ParseMealLog(v)
             meal == Spread(input, [id |-> "", timestamp |-> t])
             date == toDateString(t)
             r == logMeal(s, meal, t, "")
         IN  Returned([text |-> "Meal logged.", totals |-> r.day.totals],
                      r.storage,
                      {getDailyKey(date), STORAGE_KEYS.MEAL_DATES})

MacroFields == {"protein", "carbs", "fat", "calories"}

\* the output of profileUpdateSchema: the supplied keys of the schema only
ParseProfileUpdate(v) ==
    [k \in (DOMAIN v.val) \cap ProfileFields |->
        IF k = "macroTargets"
        THEN Some([f \in (DOMAIN v.val[k].val) \cap MacroFields |->
                       v.val[k].val[f].val])
        ELSE Some(Plain(v.val[k]))]

\* input.macroTargets.field ?? 0
OrZero(targets, field) ==
    IF field \in DOMAIN targets THEN targets[field] ELSE 0

\* updateProfile.execute(input)
updateProfileTool(s, v, agent, t) ==
    IF ~agent THEN Thrown(CONTEXT_UNAVAILABLE, s)
    ELSE LET input == ParseProfileUpdate(v)
             macroTargets ==
                 IF "macroTargets" \in DOMAIN input
                 THEN LET targets == input.macroTargets[1]
                      IN  Some([protein  |-> OrZero(targets, "protein"),
                                carbs    |-> OrZero(targets, "carbs"),
                                fat      |-> OrZero(targets, "fat"),
                                calories |-> OrZero(targets, "calories")])
                 ELSE UndefinedValue
             r == setProfile(s, Spread(input, [macroTargets |-> macroTargets]), t)
         IN  Returned([text |-> "Profile updated.", profile |-> r.profile],
                      r.storage, {STORAGE_KEYS.PROFILE})

\* history.filter((day) => day.date !== today.date)
OtherDays(history, today) ==
    LET Other(day) == day.date # today.date IN SelectSeq(history, Other)

\* formatProgress(profile, today, history): the lines of the summary
formatProgress(profile, today, history) ==
    [today      |-> today.date,
     totals     |-> today.totals,
     meals      |-> Slice([i \in DOMAIN today.meals |-> today.meals[i].food], 5),
     targets    |-> FieldOf(profile, "macroTargets"),
     recentDays |-> IF Len(history) > 1
                    THEN Slice(OtherDays(history, today), 3)
                    ELSE <<>>]

\* the keys getMealHistory(limit) reads
MealHistoryReads(s, limit) ==
    LET ordered == Slice(SortDatesDesc(storageGet(s, STORAGE_KEYS.MEAL_DATES,
                                                  <<>>)), limit)
    IN  {STORAGE_KEYS.MEAL_DATES}
            \cup { getDailyKey(ordered[i]) : i \in DOMAIN ordered }

getProgressTool_PersistsSlice(s, v, agent, t) ==
    IF ~agent THEN Thrown(CONTEXT_UNAVAILABLE, s)
    ELSE LET days == IF "days" \in DOMAIN v.val THEN v.val.days.val
                     ELSE DefaultProgressDays
             profile == getProfileOrEmpty(s)
             today == getDailyMacros(s, toDateString(t))
             history == getMealHistory(s, days)
             ordered == Slice(SortDatesDesc(storageGet(s,
                                  STORAGE_KEYS.MEAL_DATES, <<>>)), days)
         IN  Returned(formatProgress(profile, today, history),
                      storagePut(s, STORAGE_KEYS.MEAL_DATES, ordered),
                      {STORAGE_KEYS.PROFILE, getDailyKey(toDateString(t))}
                          \cup MealHistoryReads(s, days))

\* getProgress.execute(input)
getProgressTool(s, v, agent, t) ==
    IF ~agent THEN Thrown(CONTEXT_UNAVAILABLE, s)
    ELSE LET days == IF "days" \in DOMAIN v.val THEN v.val.days.val
                     ELSE DefaultProgressDays
             profile == getProfileOrEmpty(s)
             today == getDailyMacros(s, toDateString(t))
             history == getMealHistory(s, days)
         IN  Returned(formatProgress(profile, today, history), s,
                      {STORAGE_KEYS.PROFILE, getDailyKey(toDateString(t))}
                          \cup MealHistoryReads(s, days))

\* saveMealPlan.execute(input)
saveMealPlanTool(s, v, agent, t, uuid) ==
    IF ~agent THEN Thrown(CONTEXT_UNAVAILABLE, s)
    ELSE LET planId == IF "id" \in DOMAIN v.val THEN v.val.id.val ELSE uuid
             plan == [id |-> planId,
                      createdAt |-> t,
                      timeframe |-> IF "timeframe" \in DOMAIN v.val
                                    THEN v.val.timeframe.val ELSE "daily",
                      days |-> Plain(v.val.days),
                      shoppingListId |->
                          IF "shoppingListId" \in DOMAIN v.val
                          THEN v.val.shoppingListId.val ELSE Undefined]
         IN  Returned([text |-> "Meal plan saved.", id |-> planId,
                       days |-> Len(plan.days)],
                      saveMealPlan(s, plan),
                      {STORAGE_KEYS.MEAL_PLAN_HISTORY})

saveShoppingListTool_LinkActiveOnly(s, v, agent, t, uuid) ==
    IF ~agent THEN Thrown(CONTEXT_UNAVAILABLE, s)
    ELSE LET listId == IF "id" \in DOMAIN v.val THEN v.val.id.val ELSE uuid
             list == [id |-> listId,
                      createdAt |-> t,
                      timeframe |-> IF "timeframe" \in DOMAIN v.val
                                    THEN v.val.timeframe.val ELSE "daily",
                      items |-> Plain(v.val.items)]
             s1 == saveShoppingList(s, list)
             hasPlanId == "planId" \in DOMAIN v.val /\ v.val.planId.val # ""
             linked == /\ hasPlanId
                       /\ HasActivePlan(s1)
                       /\ getLatestMealPlan(s1).id = v.val.planId.val
             s2 == IF linked
                   THEN storagePut(s1, STORAGE_KEYS.MEAL_PLAN_ACTIVE,
                                   [getLatestMealPlan(s1) EXCEPT
                                       !.shoppingListId = listId])
                   ELSE s1
         IN  Returned([text |-> "Shopping list stored.", id |-> listId,
                       items |-> Len(list.items)],
                      s2, {STORAGE_KEYS.SHOPPING_LISTS})

saveShoppingListTool_AnyPlan(s, v, agent, t, uuid) ==
    IF ~agent THEN Thrown(CONTEXT_UNAVAILABLE, s)
    ELSE LET listId == IF "id" \in DOMAIN v.val THEN v.val.id.val ELSE uuid
             list == [id |-> listId,
                      createdAt |-> t,
                      timeframe |-> IF "timeframe" \in DOMAIN v.val
                                    THEN v.val.timeframe.val ELSE "daily",
                      items |-> Plain(v.val.items)]
             s1 == saveShoppingList(s, list)
             hasPlanId == "planId" \in DOMAIN v.val /\ v.val.planId.val # ""
             s2 == IF hasPlanId /\ HasActivePlan(s1)
                   THEN saveMealPlan(s1, [getLatestMealPlan(s1) EXCEPT
                                             !.shoppingListId = listId])
                   ELSE s1
         IN  Returned([text |-> "Shopping list stored.", id |-> listId,
                       items |-> Len(list.items)],
                      s2, {STORAGE_KEYS.SHOPPING_LISTS})

saveShoppingListTool_LateCheck(s, v, agent, t, uuid) ==
    LET listId == IF "id" \in DOMAIN v.val THEN v.val.id.val ELSE uuid
        list == [id |-> listId,
                 createdAt |-> t,
                 timeframe |-> IF "timeframe" \in DOMAIN v.val
                               THEN v.val.timeframe.val ELSE "daily",
                 items |-> Plain(v.val.items)]
        s1 == saveShoppingList(s, list)
    IN  IF ~agent THEN Thrown(CONTEXT_UNAVAILABLE, s1)
        ELSE Returned([text |-> "Shopping list stored.", id |-> listId,
                       items |-> Len(list.items)],
                      s1, {STORAGE_KEYS.SHOPPING_LISTS})

\* saveShoppingList.execute(input)
saveShoppingListTool(s, v, agent, t, uuid) ==
    IF ~agent THEN Thrown(CONTEXT_UNAVAILABLE, s)
    ELSE LET listId == IF "id" \in DOMAIN v.val THEN v.val.id.val ELSE uuid
             list == [id |-> listId,
                      createdAt |-> t,
                      timeframe |-> IF "timeframe" \in DOMAIN v.val
                                    THEN v.val.timeframe.val ELSE "daily",
                      items |-> Plain(v.val.items)]
             s1 == saveShoppingList(s, list)
             \* if (input.planId): an empty string is falsy
             hasPlanId == "planId" \in DOMAIN v.val /\ v.val.planId.val # ""
             linked == /\ hasPlanId
                       /\ HasActivePlan(s1)
                       /\ getLatestMealPlan(s1).id = v.val.planId.val
             s2 == IF linked
                   THEN saveMealPlan(s1, [getLatestMealPlan(s1) EXCEPT
                                             !.shoppingListId = listId])
                   ELSE s1
         IN  Returned([text |-> "Shopping list stored.", id |-> listId,
                       items |-> Len(list.items)],
                      s2,
                      {STORAGE_KEYS.SHOPPING_LISTS}
                          \cup (IF hasPlanId
                                THEN {STORAGE_KEYS.MEAL_PLAN_ACTIVE} ELSE {})
                          \cup (IF linked
                                THEN {STORAGE_KEYS.MEAL_PLAN_HISTORY} ELSE {}))

----------------------------------------------------------------------------
(* The tool inputs of the model: well-formed ones and malformed ones       *)

\* object v with key k set to x, and without key k
With(v, k, x) == Obj(Spread(v.val, [key \in {k} |-> x]))
Without(v, k) == Obj([key \in (DOMAIN v.val) \ {k} |-> v.val[key]])

EggsInput ==
    Obj([food |-> Str("3 eggs"), mealType |-> Str("breakfast"),
         protein |-> Num(18), carbs |-> Num(1), fat |-> Num(15),
         calories |-> Num(210)])
ToastInput ==
    Obj([food |-> Str("toast"), protein |-> Num(4), carbs |-> Num(24),
         fat |-> Num(2), calories |-> Num(140), notes |-> Str("buttered")])

ValidLogMealInputs == { EggsInput, ToastInput }
InvalidLogMealInputs ==
    { With(EggsInput, "protein", Num(-1)),       \* negative macro value
      With(EggsInput, "food", Str("x")),         \* food shorter than 2
      With(EggsInput, "calories", Str("210")),   \* wrong type
      With(EggsInput, "mealType", Str("brunch")),\* unknown enum value
      Without(ToastInput, "fat") }               \* required key missing
LogMealInputs == ValidLogMealInputs \cup InvalidLogMealInputs

FullTargets ==
    Obj([protein |-> Num(150), carbs |-> Num(200), fat |-> Num(60),
         calories |-> Num(2000)])

ValidProfileInputs ==
    { Obj([name |-> Str("Sam"), goalType |-> Str("bulking")]),
      Obj([weight |-> Num(180), targetWeight |-> Num(170)]),
      Obj([macroTargets |-> FullTargets]),
      Obj([macroTargets |-> Obj([protein |-> Num(180)])]) }
InvalidProfileInputs ==
    { Obj([weight |-> Num(-1)]),
      Obj([goalType |-> Str("shredding")]),
      Obj([age |-> Str("old")]),
      Obj([macroTargets |-> Obj([protein |-> Num(-5)])]) }
ProfileInputs == ValidProfileInputs \cup InvalidProfileInputs

ValidProgressInputs ==
    { Obj(<<>>), Obj([days |-> Num(MinProgressDays)]),
      Obj([days |-> Num(MaxProgressDays)]) }
InvalidProgressInputs ==
    { Obj([days |-> Num(MinProgressDays - 1)]),
      Obj([days |-> Num(MaxProgressDays + 1)]),
      Obj([days |-> Str("3")]) }
ProgressInputs == ValidProgressInputs \cup InvalidProgressInputs

EntryInput ==
    Obj([mealType |-> Str("breakfast"), name |-> Str("Omelette"),
         description |-> Str("eggs"),
         macros |-> Obj([protein |-> Num(30), carbs |-> Num(5),
                         fat |-> Num(20), calories |-> Num(320)]),
         ingredients |-> Arr(<<Str("eggs")>>),
         preparationSteps |-> Arr(<<Str("whisk"), Str("fry")>>)])
DayInput(date, meals) ==
    Obj([date |-> Str(date), goalSummary |-> Str("high protein"),
         meals |-> Arr(meals)])

ValidPlanInputs ==
    { Obj([id |-> Str("plan-1"),
           days |-> Arr(<<DayInput("2025-01-01", <<EntryInput>>)>>)]),
      Obj([timeframe |-> Str("weekly"),
           days |-> Arr(<<DayInput("2025-01-01", <<EntryInput>>),
                          DayInput("2025-01-02", <<EntryInput>>)>>)]) }
InvalidPlanInputs ==
    { Obj([id |-> Str("plan-1"), days |-> Arr(<<>>)]),          \* no days
      Obj([days |-> Arr(<<DayInput("2025-01-01", <<>>)>>)]),    \* no meals
      Obj([timeframe |-> Str("monthly"),
           days |-> Arr(<<DayInput("2025-01-01", <<EntryInput>>)>>)]),
      Obj([days |-> Arr(<<DayInput("2025-01-01",
              <<With(EntryInput, "mealType", Str("brunch"))>>)>>)]) }
PlanInputs == ValidPlanInputs \cup InvalidPlanInputs

ItemInput(name, refs) ==
    Obj([name |-> Str(name), quantity |-> Str("1"),
         mealReferences |-> Arr(refs)])

ValidListInputs ==
    { Obj([id |-> Str("list-1"), planId |-> Str("plan-1"),
           items |-> Arr(<<ItemInput("eggs", <<Str("Breakfast")>>),
                           ItemInput("milk", <<Str("Breakfast")>>),
                           ItemInput("soap", <<>>)>>)]),
      Obj([items |-> Arr(<<ItemInput("rice", <<Str("Dinner")>>)>>)]) }
InvalidListInputs ==
    { Obj([id |-> Str("list-1"), items |-> Arr(<<>>)]),         \* no items
      Obj([items |-> Arr(<<Without(ItemInput("rice", <<>>), "quantity")>>)]),
      Obj([timeframe |-> Str("yearly"),
           items |-> Arr(<<ItemInput("rice", <<>>)>>)]) }
ListInputs == ValidListInputs \cup InvalidListInputs

\* the dates that have a day record in the store
StoredDates(s) ==
    { k[2] : k \in { x \in DOMAIN s : Len(x) = 2 } }

RECURSIVE MealCountOf(_, _)
MealCountOf(s, dates) ==
    IF dates = {} THEN 0
    ELSE LET d == CHOOSE x \in dates : TRUE
         IN  Len(readDaily(s, d).meals) + MealCountOf(s, dates \ {d})

\* the number of meals in the store
StoredMealCount(s) == MealCountOf(s, StoredDates(s))

----------------------------------------------------------------------------
(* The chat turn: model resolution, fixed messages, narration              *)

\* no model: what resolveModel returns as null
Null == [provider |-> "null"]

\* the fixed messages of onChatMessage (the dash of the first one is ASCII)
RATE_LIMIT_TEXT ==
    "i need a breather - too many requests right now. try again in a few minutes."
NO_MODEL_TEXT ==
    "i can't reach an ai model right now. make sure an openai key is configured."
GENERATION_FAILED_TEXT ==
    "I hit a snag generating that answer. Please try again in a moment."
\* what onError of the response stream returns
STREAM_ERROR_TEXT ==
    "I ran into an issue generating that response. Please try again in a moment."
MANUAL_LOGGING_NOTE ==
    "Note: I'm operating without automated logging right now, so I'll give you recommendations directly-log meals or update your profile manually."

\* env.OPENAI_API_KEY || process.env.OPENAI_API_KEY: absent or present
ApiKeys == { "", "sk-test" }

\* resolveModel(): null without a key, else the OpenAI model with tools
resolveModel(openaiKey) ==
    IF openaiKey = "" THEN Null
    ELSE [provider |-> "openai:gpt-4o-mini", supportsTools |-> TRUE]

\* The values of the interface ResolvedModel: supportsTools is any boolean and
\* fallback is optional; the field fallback holds what fallback() returns.
ResolvedModels ==
    LET Primaries == { [provider |-> "primary", supportsTools |-> b] :
                         b \in BOOLEAN }
        Backups == { [provider |-> "fallback", supportsTools |-> b] :
                       b \in BOOLEAN }
    IN  Primaries \cup { Spread(m, [fallback |-> f]) :
                           m \in Primaries, f \in Backups }

\* modelInfo.fallback is set
HasFallback(info) == "fallback" \in DOMAIN info

\* message.includes(marker)
Includes(message, marker) ==
    \E i \in 1..(Len(message) - Len(marker) + 1) :
        SubSeq(message, i, i + Len(marker) - 1) = marker

\* what a generation attempt can fail with: Error objects and a thrown string
ModelErrors ==
    { [isError |-> TRUE, name |-> "Error",
       message |-> "No such model @cf/meta/llama"],
      [isError |-> TRUE, name |-> "Error",
       message |-> "AiError: 5007: model unavailable"],
      [isError |-> TRUE, name |-> "InferenceUpstreamError",
       message |-> "upstream failed"],
      [isError |-> TRUE, name |-> "TypeError",
       message |-> "Invalid prompt"],
      [isError |-> FALSE, name |-> "", message |-> "5007"] }

\* isRecoverableModelError(error)
isRecoverableModelError(error) ==
    LET message == IF error.isError THEN error.message ELSE ""
        name == IF error.isError THEN error.name ELSE ""
    IN  \/ Includes(message, "No such model")
        \/ Includes(message, "5007")
        \/ name = "InferenceUpstreamError"

\* generateId(): an id no chunk written so far carries
generateId(o) == "id-" \o ToString(Len(o))

\* streamPlainText(writer, text): the stream o with the three chunks written.
\* A text is the tuple of its pieces: << text >> for a fixed message, the
\* template and the values filled in for a narration.
streamPlainText(o, text) ==
    LET id == generateId(o)
    IN  o \o << [type |-> "text-start", id |-> id],
                [type |-> "text-delta", id |-> id, delta |-> text],
                [type |-> "text-end", id |-> id] >>

\* the error chunk of the response stream: onError renders the error
errorChunk == [type |-> "error", errorText |-> STREAM_ERROR_TEXT]

\* toolInput.key ?? dflt on a parsed tool input (a JSON object)
InputOr(toolInput, key, dflt) ==
    IF key \in DOMAIN toolInput THEN toolInput[key].val ELSE dflt

\* the per-day part of the meal plan narration
planDayLines(planDays) ==
    [ i \in DOMAIN planDays |->
        LET day == planDays[i].val
            meals == IF "meals" \in DOMAIN day /\ day.meals.type = "array"
                     THEN day.meals.val ELSE <<>>
        IN  [date |-> InputOr(day, "date", "Day " \o ToString(i)),
             goalSummary |-> InputOr(day, "goalSummary", "No goal set"),
             meals |-> IF Len(meals) > 0
                       THEN [ j \in DOMAIN meals |->
                                [name |-> InputOr(meals[j].val, "name", "meal"),
                                 mealType |-> InputOr(meals[j].val, "mealType",
                                                      "meal")] ]
                       ELSE << "No meals planned" >>] ]

\* the (meal reference, item) entries in the order items.forEach and
\* mealRefs.forEach visit them; an item without references goes to "Other"
RECURSIVE mealEntries(_)
mealEntries(items) ==
    IF items = <<>> THEN <<>>
    ELSE LET item == Head(items)
             given == "mealReferences" \in DOMAIN item.val
                          /\ item.val.mealReferences.type = "array"
                          /\ Len(item.val.mealReferences.val) > 0
             mealRefs == IF given
                         THEN [ k \in DOMAIN item.val.mealReferences.val |->
                                  item.val.mealReferences.val[k].val ]
                         ELSE << "Other" >>
         IN  [ k \in DOMAIN mealRefs |->
                 [mealName |-> mealRefs[k],
                  name |-> InputOr(item.val, "name", "item"),
                  quantity |-> InputOr(item.val, "quantity", "1")] ]
                 \o mealEntries(Tail(items))

itemsByMeal_LastOccurrence(items) ==
    LET entries == mealEntries(items)
        first == SelectSeq([ i \in DOMAIN entries |-> i ],
                           LAMBDA i : \A j \in (i + 1)..Len(entries) :
                               entries[j].mealName # entries[i].mealName)
    IN  [ g \in DOMAIN first |->
            [mealName |-> entries[first[g]].mealName,
             items |-> LET under == SelectSeq(entries,
                                       LAMBDA e : e.mealName
                                                    = entries[first[g]].mealName)
                       IN  [ j \in DOMAIN under |->
                               [name |-> under[j].name,
                                quantity |-> under[j].quantity] ]] ]

\* itemsByMeal: a Map keeps its keys in the order of their first set, so the
\* groups come in the order in which their meal reference first occurs
itemsByMeal(items) ==
    LET entries == mealEntries(items)
        first == SelectSeq([ i \in DOMAIN entries |-> i ],
                           LAMBDA i : \A j \in 1..(i - 1) :
                               entries[j].mealName # entries[i].mealName)
    IN  [ g \in DOMAIN first |->
            [mealName |-> entries[first[g]].mealName,
             items |-> LET under == SelectSeq(entries,
                                       LAMBDA e : e.mealName
                                                    = entries[first[g]].mealName)
                       IN  [ j \in DOMAIN under |->
                               [name |-> under[j].name,
                                quantity |-> under[j].quantity] ]] ]

\* onStepFinish(event): the response stream o after the callback
onStepFinish(event, o) ==
    IF Len(event.toolCalls) > 0 /\ Len(event.toolResults) > 0
    THEN LET toolResult == event.toolResults[1]
             toolName == toolResult.toolName
             toolInput == toolResult.input.val
         IN  IF DOMAIN toolInput = {} /\ toolName # "getProgress"
             THEN o    \* quick guard, nothing to do
             ELSE IF toolName = "logMeal"
             THEN streamPlainText(o,
                      << "Done! Your ", InputOr(toolInput, "food", "meal"),
                         " has been logged. Here are the macros: ",
                         InputOr(toolInput, "protein", 0), "g protein, ",
                         InputOr(toolInput, "carbs", 0), "g carbs, ",
                         InputOr(toolInput, "fat", 0), "g fat, ",
                         InputOr(toolInput, "calories", 0), " calories." >>)
             ELSE IF toolName = "saveMealPlan"
             THEN LET planDays ==
                          IF "days" \in DOMAIN toolInput
                                 /\ toolInput.days.type = "array"
                          THEN toolInput.days.val ELSE <<>>
                  IN  IF Len(planDays) = 0
                      THEN streamPlainText(o, << "No meals in the plan!" >>)
                      ELSE streamPlainText(o,
                               << "**Your meal plan is ready!**",
                                  planDayLines(planDays) >>)
             ELSE IF toolName = "saveShoppingList"
             THEN LET items ==
                          IF "items" \in DOMAIN toolInput
                                 /\ toolInput.items.type = "array"
                          THEN toolInput.items.val ELSE <<>>
                  IN  IF Len(items) = 0
                      THEN streamPlainText(o,
                               << "No items in the shopping list!" >>)
                      ELSE streamPlainText(o,
                               << "**Your shopping list is ready!**",
                                  itemsByMeal(items) >>)
             ELSE IF toolName = "getProgress"
             THEN streamPlainText(o, << "**Here's your progress:**",
                                        toolResult.output >>)
             ELSE IF toolName = "updateProfile"
             THEN streamPlainText(o, << "**Profile updated!**" >>)
             ELSE streamPlainText(o, << "Done! The ", toolName,
                                        " task has been completed." >>)
    ELSE o

\* the keys the turn reads to build its context: profile, today's macros,
\* three days of history, the active plan and the shopping lists
ContextReads(s, t) ==
    { STORAGE_KEYS.PROFILE, getDailyKey(toDateString(t)),
      STORAGE_KEYS.MEAL_PLAN_ACTIVE, STORAGE_KEYS.SHOPPING_LISTS }
        \cup MealHistoryReads(s, 3)

\* what runModel hands to streamText for model `info`
streamTextOptions_AlwaysTools(info) ==
    [model |-> info.provider,
     system |-> IF info.supportsTools THEN << "systemPrompt" >>
                ELSE << "systemPrompt", MANUAL_LOGGING_NOTE >>,
     tools |-> TRUE,
     maxSteps |-> MAX_STEPS]

streamTextOptions(info) ==
    [model |-> info.provider,
     system |-> IF info.supportsTools THEN << "systemPrompt" >>
                ELSE << "systemPrompt", MANUAL_LOGGING_NOTE >>,
     tools |-> info.supportsTools,
     maxSteps |-> MAX_STEPS]

\* no chat turn has been received
NoTurn == [start |-> <<>>, admitted |-> FALSE, reads |-> {},
           calls |-> <<>>, narrated |-> <<>>]

TurnIdle ==
    /\ modelInfo = Null
    /\ attempts = <<>>
    /\ response = <<>>
    /\ inFlight = <<>>
    /\ aborted = FALSE
    /\ turn = NoTurn

----------------------------------------------------------------------------
(* Actions                                                                 *)

NoOp == [op |-> "none"]

\* the clock advances between operations
Tick ==
    /\ \E d \in TickSteps :
         /\ now + d <= MaxNow
         /\ now' = now + d
    /\ UNCHANGED <<storage, last, rlLog, phase, step, turnVars>>

\* one admit() call: bumpRateLimit as called at the head of a chat request
Admit ==
    /\ Len(rlLog) < MaxCalls
    /\ LET r == bumpRateLimit(storage, now)
       IN  /\ storage' = r.storage
           /\ rlLog' = Append(rlLog, [at |-> now, ok |-> r.ok])
           /\ last' = [op |-> "bumpRateLimit", at |-> now, ok |-> r.ok,
                       hadRecord |-> RATE_LIMIT_KEY \in DOMAIN storage,
                       before |-> storageGet(storage, RATE_LIMIT_KEY,
                                             [count |-> 0, reset |-> 0]),
                       after |-> r.storage[RATE_LIMIT_KEY]]
    /\ UNCHANGED <<now, phase, step, turnVars>>

Init ==
    /\ storage = EmptyStorage
    /\ now = 0
    /\ last = NoOp
    /\ rlLog = <<>>
    /\ phase = "Idle"
    /\ step = 0
    /\ TurnIdle

\* agent.logMeal(meal) with any timestamp and any of the modelled meals
AgentLogMeal ==
    /\ StoredMealCount(storage) < MaxMeals
    /\ \E food \in DOMAIN MealFoods, ts \in MealTimes, uuid \in UUIDs :
         LET meal == Spread(MealFoods[food], [timestamp |-> ts])
             r == logMeal(storage, meal, now, uuid)
         IN  /\ storage' = r.storage
             /\ last' = [op |-> "logMeal", input |-> meal, ok |-> TRUE,
                         day |-> r.day]
    /\ UNCHANGED <<now, rlLog, phase, step, turnVars>>

NextMeals == AgentLogMeal

SpecMeals == Init /\ [][NextMeals]_vars

\* agent.logMeal(meal) with a timestamp on a day of the dates run: first one
\* meal on each of the days 1..SeedDays in turn, then on any day of DayChoices
AgentLogMealOnDay ==
    /\ StoredMealCount(storage) < SeedDays + MaxNewMeals
    /\ \E d \in IF StoredMealCount(storage) < SeedDays
                THEN {StoredMealCount(storage) + 1}
                ELSE DayChoices :
         LET meal == Spread(MealFoods.toast, [timestamp |-> d * SECONDS_PER_DAY + 100])
             r == logMeal(storage, meal, now, "uuid-b")
         IN  /\ storage' = r.storage
             /\ last' = [op |-> "logMeal", input |-> meal, ok |-> TRUE,
                         day |-> r.day]
    /\ UNCHANGED <<now, rlLog, phase, step, turnVars>>

NextDates == AgentLogMealOnDay

SpecDates == Init /\ [][NextDates]_vars

\* agent.saveMealPlan(plan) with any of the modelled plans
AgentSaveMealPlan ==
    /\ \E id \in PlanIds, days \in PlanDaysChoices :
         LET plan == [id |-> id, createdAt |-> now, timeframe |-> "daily",
                      days |-> days, shoppingListId |-> Undefined]
             before == getMealPlanHistory(storage)
         IN  /\ storage' = saveMealPlan(storage, plan)
             /\ last' = [op |-> "saveMealPlan", input |-> plan, ok |-> TRUE,
                         replaced |-> \E i \in DOMAIN before :
                                          before[i].id = id /\ before[i] # plan]
    /\ UNCHANGED <<now, rlLog, phase, step, turnVars>>

NextPlans == AgentSaveMealPlan

SpecPlans == Init /\ [][NextPlans]_vars

\* runModel: the generation of the turn starts (streamText is called)
BeginGeneration ==
    /\ phase = "Idle"
    /\ phase' = "Generating"
    /\ step' = 0
    /\ UNCHANGED <<storage, now, last, rlLog, turnVars>>

\* the generation ends: the model asked for no further tool
FinishGeneration ==
    /\ phase = "Generating"
    /\ phase' = "Completed"
    /\ UNCHANGED <<storage, now, last, rlLog, step, turnVars>>

\* A generation step in which the model calls tool `name` with input v.  The
\* input is checked against the inputSchema of the tool before execute runs;
\* what execute throws becomes the result of that tool call.
Dispatched(name, v, agent, valid, out) ==
    LET outcome == IF valid THEN out ELSE Thrown(VALIDATION_FAILED, storage)
    IN  /\ storage' = outcome.storage
        /\ last' = [op |-> name, input |-> v, agent |-> agent,
                    ok |-> outcome.ok, error |-> outcome.error,
                    result |-> outcome.result, reads |-> outcome.reads]
        /\ step' = step + 1
        /\ UNCHANGED <<now, rlLog, phase, turnVars>>

ToolLogMeal ==
    /\ phase = "Generating" /\ step < MAX_STEPS
    /\ \E v \in LogMealInputs, agent \in BOOLEAN :
         Dispatched("logMeal", v, agent, mealLogSchema(v),
                    logMealTool(storage, v, agent, now))

ToolUpdateProfile ==
    /\ phase = "Generating" /\ step < MAX_STEPS
    /\ \E v \in ProfileInputs, agent \in BOOLEAN :
         Dispatched("updateProfile", v, agent, profileUpdateSchema(v),
                    updateProfileTool(storage, v, agent, now))

ToolGetProgress ==
    /\ phase = "Generating" /\ step < MAX_STEPS
    /\ \E v \in ProgressInputs, agent \in BOOLEAN :
         Dispatched("getProgress", v, agent, progressSchema(v),
                    getProgressTool(storage, v, agent, now))

ToolSaveMealPlan ==
    /\ phase = "Generating" /\ step < MAX_STEPS
    /\ \E v \in PlanInputs, agent \in BOOLEAN, uuid \in UUIDs :
         Dispatched("saveMealPlan", v, agent, mealPlanSchema(v),
                    saveMealPlanTool(storage, v, agent, now, uuid))

ToolSaveShoppingList ==
    /\ phase = "Generating" /\ step < MAX_STEPS
    /\ \E v \in ListInputs, agent \in BOOLEAN, uuid \in UUIDs :
         Dispatched("saveShoppingList", v, agent, shoppingListSchema(v),
                    saveShoppingListTool(storage, v, agent, now, uuid))

\* a session that has a profile, three days of meals and an active plan
PopulatedStorage ==
    LET s1 == logMeal(EmptyStorage,
                      Spread(MealFoods.eggs, [timestamp |-> 500]), 500,
                      "uuid-a").storage
        s2 == logMeal(s1, Spread(MealFoods.toast,
                                 [timestamp |-> SECONDS_PER_DAY + 100]),
                      SECONDS_PER_DAY + 100, "uuid-b").storage
        s3 == logMeal(s2, Spread(MealFoods.eggs,
                                 [timestamp |-> 2 * SECONDS_PER_DAY]),
                      2 * SECONDS_PER_DAY, "uuid-a").storage
        s4 == setProfile(s3, [name |-> Some("Sam"),
                              macroTargets |-> Some([protein |-> 150,
                                  carbs |-> 200, fat |-> 60, calories |-> 2000])],
                         2 * SECONDS_PER_DAY).storage
    IN  saveMealPlan(s4, [id |-> "plan-1", createdAt |-> 2 * SECONDS_PER_DAY,
                          timeframe |-> "daily",
                          days |-> <<PlanDay("2025-01-01")>>,
                          shoppingListId |-> Undefined])

\* a turn on a fresh session or on a session with data
InitTools ==
    /\ storage \in {EmptyStorage, PopulatedStorage}
    /\ now = 2 * SECONDS_PER_DAY + 500
    /\ last = NoOp
    /\ rlLog = <<>>
    /\ phase = "Idle"
    /\ step = 0
    /\ TurnIdle

NextProfile == BeginGeneration \/ ToolUpdateProfile \/ FinishGeneration

SpecProfile == Init /\ [][NextProfile]_vars

NextTools ==
    \/ BeginGeneration
    \/ ToolLogMeal
    \/ ToolUpdateProfile
    \/ ToolGetProgress
    \/ ToolSaveMealPlan
    \/ ToolSaveShoppingList
    \/ FinishGeneration

SpecTools == InitTools /\ [][NextTools]_vars

NextRate == Tick \/ Admit

SpecRate == Init /\ [][NextRate]_vars

----------------------------------------------------------------------------
(* The chat turn: onChatMessage                                            *)

\* the tool calls one step of the model can ask for; the inputs are inputs
\* the schemas accept, among them the objects without any field
SingleCalls ==
    { [toolName |-> "logMeal", input |-> EggsInput],
      [toolName |-> "updateProfile", input |-> Obj(<<>>)],
      [toolName |-> "updateProfile",
       input |-> Obj([name |-> Str("Sam"), goalType |-> Str("bulking")])],
      [toolName |-> "getProgress", input |-> Obj(<<>>)],
      [toolName |-> "saveMealPlan",
       input |-> Obj([id |-> Str("plan-1"),
                      days |-> Arr(<<DayInput("2025-01-01", <<EntryInput>>)>>)])],
      [toolName |-> "saveShoppingList",
       input |-> Obj([items |-> Arr(<<ItemInput("rice", <<Str("Dinner")>>)>>)])],
      \* two items for breakfast and one for no meal
      [toolName |-> "saveShoppingList",
       input |-> Obj([items |-> Arr(<<ItemInput("eggs", <<Str("Breakfast")>>),
                                      ItemInput("milk", <<Str("Breakfast")>>),
                                      ItemInput("soap", <<>>)>>)])],
      \* an item for two meals, and groups that are not met in sorted order
      [toolName |-> "saveShoppingList",
       input |-> Obj([items |-> Arr(<<ItemInput("soap", <<>>),
                                      ItemInput("oats", <<Str("Dinner"),
                                                          Str("Breakfast")>>),
                                      ItemInput("eggs", <<Str("Breakfast")>>),
                                      ItemInput("rice", <<Str("Dinner")>>)>>)])] }

\* the meals a step can log together
ParallelCalls ==
    { [toolName |-> "logMeal", input |-> EggsInput],
      [toolName |-> "logMeal", input |-> ToastInput] }

\* What the first step of the model holds: text or not, and its tool calls.
\* Each tool is called alone after some text; a meal is logged without text;
\* the model answers with text alone; several meals are logged together.
FirstSteps ==
    { [text |-> TRUE, calls |-> <<c>>] : c \in SingleCalls }
        \cup { [text |-> FALSE,
                calls |-> << [toolName |-> "logMeal", input |-> EggsInput] >>],
               [text |-> TRUE, calls |-> <<>>] }
        \cup { [text |-> TRUE, calls |-> <<p[1], p[2]>>] :
                 p \in { q \in ParallelCalls \X ParallelCalls : q[1] # q[2] } }

\* what the steps after the first one hold
LaterSteps ==
    { [text |-> TRUE, calls |-> <<>>],
      [text |-> TRUE,
       calls |-> << [toolName |-> "logMeal", input |-> ToastInput] >>],
      [text |-> FALSE,
       calls |-> << [toolName |-> "getProgress", input |-> Obj(<<>>)] >>] }

\* what the model's stream fails with while it is consumed
StreamErrors ==
    { e \in ModelErrors : e.name \in {"InferenceUpstreamError", "TypeError"} }

\* the inputSchema of the tool accepts the input of the call
inputAccepted(call) ==
    CASE call.toolName = "logMeal" -> mealLogSchema(call.input)
      [] call.toolName = "updateProfile" -> profileUpdateSchema(call.input)
      [] call.toolName = "getProgress" -> progressSchema(call.input)
      [] call.toolName = "saveMealPlan" -> mealPlanSchema(call.input)
      [] call.toolName = "saveShoppingList" -> shoppingListSchema(call.input)

\* tools[toolName].execute(input) inside the turn of the agent
execute(s, call, t) ==
    CASE call.toolName = "logMeal" -> logMealTool(s, call.input, TRUE, t)
      [] call.toolName = "updateProfile" ->
             updateProfileTool(s, call.input, TRUE, t)
      [] call.toolName = "getProgress" ->
             getProgressTool(s, call.input, TRUE, t)
      [] call.toolName = "saveMealPlan" ->
             saveMealPlanTool(s, call.input, TRUE, t, "uuid-a")
      [] call.toolName = "saveShoppingList" ->
             saveShoppingListTool(s, call.input, TRUE, t, "uuid-b")

\* streamText runs every tool call of a step: the store afterwards and the
\* tool results of the step
RECURSIVE dispatchAll(_, _, _)
dispatchAll(s, calls, t) ==
    IF calls = <<>> THEN [storage |-> s, results |-> <<>>]
    ELSE LET call == Head(calls)
             outcome == IF inputAccepted(call) THEN execute(s, call, t)
                        ELSE Thrown(VALIDATION_FAILED, s)
             rest == dispatchAll(outcome.storage, Tail(calls), t)
         IN  [storage |-> rest.storage,
              results |-> (IF outcome.ok
                           THEN << [toolName |-> call.toolName,
                                    input |-> call.input,
                                    output |-> outcome.result] >>
                           ELSE <<>>) \o rest.results]

\* one runModel(info) call: the options of streamText, how the call stands
\* (streaming, finished, threw, failed), its error if any, and the step whose
\* onStepFinish is still to run
Attempt(info, state, error) ==
    [options |-> streamTextOptions(info), state |-> state, error |-> error,
     open |-> <<>>]

\* onChatMessage is entered: resolveModel() runs before the stream is created
ReceiveRequest ==
    /\ phase = "Idle"
    /\ \E openaiKey \in ApiKeys : modelInfo' = resolveModel(openaiKey)
    /\ phase' = "Admitting"
    /\ turn' = [NoTurn EXCEPT !.start = storage]
    /\ UNCHANGED <<storage, now, last, rlLog, step, attempts, response,
                   inFlight, aborted>>

Admission_NoReturn ==
    /\ phase = "Admitting"
    /\ LET r == bumpRateLimit(storage, now)
       IN  /\ storage' = r.storage
           /\ rlLog' = Append(rlLog, [at |-> now, ok |-> r.ok])
           /\ turn' = [turn EXCEPT !.admitted = r.ok]
           /\ phase' = "Resolving"
           /\ response' = IF r.ok THEN response
                          ELSE streamPlainText(response, << RATE_LIMIT_TEXT >>)
    /\ UNCHANGED <<now, last, step, modelInfo, attempts, inFlight, aborted>>

\* execute: the admission check; a rejected turn gets the fixed message
Admission ==
    /\ phase = "Admitting"
    /\ LET r == bumpRateLimit(storage, now)
       IN  /\ storage' = r.storage
           /\ rlLog' = Append(rlLog, [at |-> now, ok |-> r.ok])
           /\ turn' = [turn EXCEPT !.admitted = r.ok]
           /\ IF r.ok
              THEN phase' = "Resolving" /\ response' = response
              ELSE /\ phase' = "Rejected"
                   /\ response' = streamPlainText(response, << RATE_LIMIT_TEXT >>)
    /\ UNCHANGED <<now, last, step, modelInfo, attempts, inFlight, aborted>>

CheckModel_NoReturn ==
    /\ phase = "Resolving"
    /\ phase' = "ContextBuilding"
    /\ response' = IF modelInfo = Null
                   THEN streamPlainText(response, << NO_MODEL_TEXT >>)
                   ELSE response
    /\ UNCHANGED <<storage, now, last, rlLog, step, modelInfo, attempts,
                   inFlight, aborted, turn>>

\* execute: if (!modelInfo) the turn ends with the fixed message
CheckModel ==
    /\ phase = "Resolving"
    /\ IF modelInfo = Null
       THEN /\ phase' = "Unavailable"
            /\ response' = streamPlainText(response, << NO_MODEL_TEXT >>)
       ELSE phase' = "ContextBuilding" /\ response' = response
    /\ UNCHANGED <<storage, now, last, rlLog, step, modelInfo, attempts,
                   inFlight, aborted, turn>>

\* execute: the context of the turn is read and the system prompt is built
BuildContext ==
    /\ phase = "ContextBuilding"
    /\ turn' = [turn EXCEPT !.reads = ContextReads(storage, now)]
    /\ phase' = "Generating"
    /\ UNCHANGED <<storage, now, last, rlLog, step, modelInfo, attempts,
                   response, inFlight, aborted>>

\* execute: try { runModel(modelInfo) } catch.  runModel returns once
\* streamText has been called and its stream has been handed to writer.merge,
\* or it throws.  What the fallback call throws leaves execute and is
\* rendered by onError of the response stream.
RunModel ==
    /\ phase = "Generating" /\ attempts = <<>>
    /\ \/ /\ attempts' = << Attempt(modelInfo, "streaming", <<>>) >>
          /\ UNCHANGED <<phase, response>>
       \/ \E error \in ModelErrors :
            IF HasFallback(modelInfo) /\ isRecoverableModelError(error)
            THEN \/ /\ attempts' =
                         << Attempt(modelInfo, "threw", <<error>>),
                            Attempt(modelInfo.fallback, "streaming", <<>>) >>
                    /\ UNCHANGED <<phase, response>>
                 \/ \E second \in ModelErrors :
                      /\ attempts' =
                           << Attempt(modelInfo, "threw", <<error>>),
                              Attempt(modelInfo.fallback, "threw",
                                      <<second>>) >>
                      /\ response' = Append(response, errorChunk)
                      /\ phase' = "Failed"
            ELSE /\ attempts' = << Attempt(modelInfo, "threw", <<error>>) >>
                 /\ response' = streamPlainText(response,
                                                << GENERATION_FAILED_TEXT >>)
                 /\ phase' = "Failed"
    /\ step' = 0
    /\ UNCHANGED <<storage, now, last, rlLog, modelInfo, inFlight, aborted,
                   turn>>

\* the attempt whose stream is merged into the response
Current == attempts[Len(attempts)]

Streaming ==
    /\ phase = "Generating"
    /\ attempts # <<>>
    /\ Current.state = "streaming"

\* One step of the model: it produces text, or asks for tools, or both.  The
\* tools run, and the chunks of the step enter the stream of the model.
ModelStep ==
    /\ Streaming
    /\ Current.open = <<>>
    /\ step < Current.options.maxSteps
    /\ \E content \in IF ~Current.options.tools
                      THEN { [text |-> TRUE, calls |-> <<>>] }
                      ELSE IF step = 0 THEN FirstSteps ELSE LaterSteps :
       LET text == content.text
           calls == content.calls
       IN
         /\ LET r == dispatchAll(storage, calls, now)
                textChunks == IF text
                              THEN << [type |-> "text-delta", id |-> "model",
                                       step |-> step + 1] >>
                              ELSE <<>>
                toolChunks == [ i \in DOMAIN r.results |->
                                  [type |-> "tool-output-available",
                                   step |-> step + 1,
                                   toolName |-> r.results[i].toolName] ]
            IN  /\ storage' = r.storage
                /\ inFlight' = inFlight \o textChunks \o toolChunks
                /\ attempts' = [attempts EXCEPT ![Len(attempts)].open =
                                   << [toolCalls |-> calls,
                                       toolResults |-> r.results] >>]
                /\ turn' = [turn EXCEPT !.calls = @ \o
                               [ i \in DOMAIN calls |->
                                   [step |-> step + 1,
                                    toolName |-> calls[i].toolName,
                                    input |-> calls[i].input] ]]
    /\ UNCHANGED <<now, last, rlLog, phase, step, modelInfo, response,
                   aborted>>

\* onStepFinish of the step, and the decision of streamText to go on: another
\* step follows if this one called a tool and the step budget is not used up
StepFinish ==
    /\ Streaming
    /\ Current.open # <<>>
    /\ LET event == Current.open[1]
           after == onStepFinish(event, response)
           more == Len(event.toolCalls) > 0
                       /\ step + 1 < Current.options.maxSteps
       IN  /\ response' = after
           /\ turn' = [turn EXCEPT !.narrated =
                          IF after # response
                          THEN Append(@, [step |-> step + 1,
                                          id |-> generateId(response)])
                          ELSE @]
           /\ attempts' = [attempts EXCEPT
                              ![Len(attempts)].open = <<>>,
                              ![Len(attempts)].state =
                                  IF more THEN "streaming" ELSE "finished"]
    /\ step' = step + 1
    /\ UNCHANGED <<storage, now, last, rlLog, phase, modelInfo, inFlight,
                   aborted>>

\* writer.merge: the next chunk of the model's stream is forwarded
Forward ==
    /\ phase = "Generating"
    /\ inFlight # <<>>
    /\ response' = Append(response, Head(inFlight))
    /\ inFlight' = Tail(inFlight)
    /\ UNCHANGED <<storage, now, last, rlLog, phase, step, modelInfo,
                   attempts, aborted, turn>>

\* the model's stream fails while it is consumed: what was in flight is
\* forwarded and onError renders the error
StreamFails ==
    /\ Streaming
    /\ \E error \in StreamErrors :
         attempts' = [attempts EXCEPT ![Len(attempts)].state = "failed",
                                      ![Len(attempts)].error = <<error>>]
    /\ response' = Append(response \o inFlight, errorChunk)
    /\ inFlight' = <<>>
    /\ phase' = "Failed"
    /\ UNCHANGED <<storage, now, last, rlLog, step, modelInfo, aborted, turn>>

\* the model's stream has ended and every chunk has been forwarded
Complete ==
    /\ phase = "Generating"
    /\ attempts # <<>>
    /\ Current.state = "finished"
    /\ inFlight = <<>>
    /\ phase' = "Completed"
    /\ UNCHANGED <<storage, now, last, rlLog, step, modelInfo, attempts,
                   response, inFlight, aborted, turn>>

\* the caller aborts the request while the generation is awaited
Abort ==
    /\ Streaming
    /\ ~aborted
    /\ aborted' = TRUE
    /\ UNCHANGED <<storage, now, last, rlLog, phase, step, modelInfo,
                   attempts, response, inFlight, turn>>

\* the store after twenty admitted requests in the running window
LimitedStorage ==
    storagePut(EmptyStorage, RATE_LIMIT_KEY,
               [count |-> RATE_LIMIT_MAX_REQUESTS,
                reset |-> 2 * SECONDS_PER_DAY + RATE_LIMIT_WINDOW_MS])

\* a chat turn on a fresh session, or on one that has used up its window
InitRequest ==
    /\ storage \in {EmptyStorage, LimitedStorage}
    /\ now = 2 * SECONDS_PER_DAY + 500
    /\ last = NoOp
    /\ rlLog = <<>>
    /\ phase = "Idle"
    /\ step = 0
    /\ TurnIdle

NextRequest ==
    \/ ReceiveRequest
    \/ Admission
    \/ CheckModel
    \/ BuildContext
    \/ RunModel
    \/ ModelStep
    \/ StepFinish
    \/ Forward
    \/ StreamFails
    \/ Complete
    \/ Abort

SpecRequest == InitRequest /\ [][NextRequest]_vars

\* The generation of an admitted turn, for every value of ResolvedModel
InitGenerate ==
    /\ storage = EmptyStorage
    /\ now = 2 * SECONDS_PER_DAY + 500
    /\ last = NoOp
    /\ rlLog = <<>>
    /\ phase = "Generating"
    /\ step = 0
    /\ modelInfo \in ResolvedModels
    /\ attempts = <<>>
    /\ response = <<>>
    /\ inFlight = <<>>
    /\ aborted = FALSE
    /\ turn = [NoTurn EXCEPT !.admitted = TRUE,
                             !.reads = ContextReads(EmptyStorage, now)]

NextGenerate ==
    \/ RunModel
    \/ ModelStep
    \/ StepFinish
    \/ Forward
    \/ StreamFails
    \/ Complete

SpecGenerate == InitGenerate /\ [][NextGenerate]_vars

----------------------------------------------------------------------------
(* Rate limiter: claims                                                    *)

\* the calls logged so far that returned true
Admitted == { i \in DOMAIN rlLog : rlLog[i].ok }

\* every call so far is no later than the reset time of the first window
AllInOneWindow ==
    \A i \in DOMAIN rlLog : rlLog[i].at <= rlLog[1].at + RATE_LIMIT_WINDOW_MS

\* C2: when all admit() calls fall inside one window, calls 1..20 return
\* true and the 21st and every later call return false.
C2_CapInsideWindow ==
    AllInOneWindow =>
        \A i \in DOMAIN rlLog : rlLog[i].ok <=> (i <= RATE_LIMIT_MAX_REQUESTS)

C2_Witness ==
    /\ Len(rlLog) > RATE_LIMIT_MAX_REQUESTS
    /\ AllInOneWindow
    /\ rlLog[RATE_LIMIT_MAX_REQUESTS].ok
    /\ ~rlLog[RATE_LIMIT_MAX_REQUESTS + 1].ok
    /\ rlLog[Len(rlLog)].at = rlLog[1].at + RATE_LIMIT_WINDOW_MS

\* the last operation was an admit() made after the stored reset time
AdmitAfterReset ==
    /\ last.op = "bumpRateLimit"
    /\ last.hadRecord
    /\ last.at > last.before.reset

\* C3: an admit() call made after the window's reset time returns true and
\* leaves count = 1 and reset = now + 10 minutes, whatever the count was.
C3_ResetAfterWindow ==
    AdmitAfterReset =>
        /\ last.ok
        /\ last.after = [count |-> 1,
                         reset |-> last.at + RATE_LIMIT_WINDOW_MS]

C3_Witness ==
    /\ AdmitAfterReset
    /\ last.before.count >= RATE_LIMIT_MAX_REQUESTS

\* admitted calls in the interval of one window length that starts at call i
AdmittedWithin(i) ==
    { j \in Admitted : /\ rlLog[i].at <= rlLog[j].at
                       /\ rlLog[j].at <= rlLog[i].at + RATE_LIMIT_WINDOW_MS }

\* C4 as stated: no interval of 10 minutes contains more than 20 calls that
\* returned true (sliding counter).
C4_SlidingWindow ==
    \A i \in DOMAIN rlLog :
        Cardinality(AdmittedWithin(i)) <= RATE_LIMIT_MAX_REQUESTS

\* the reset time in force once call i has been handled, from the call times
\* alone: call 1 opens a window, a call later than the reset time opens the
\* next one
RECURSIVE WindowReset(_)
WindowReset(i) ==
    IF i = 1 THEN rlLog[1].at + RATE_LIMIT_WINDOW_MS
    ELSE LET prev == WindowReset(i - 1)
         IN  IF rlLog[i].at > prev
             THEN rlLog[i].at + RATE_LIMIT_WINDOW_MS
             ELSE prev

\* C4 amended: the counter is per fixed window: no window holds more than 20
\* calls that returned true, and an interval of 10 minutes, which meets at
\* most two windows, holds at most 40.
C4_FixedWindow ==
    \A i \in DOMAIN rlLog :
        /\ Cardinality({ j \in Admitted : WindowReset(j) = WindowReset(i) })
               <= RATE_LIMIT_MAX_REQUESTS
        /\ Cardinality(AdmittedWithin(i)) <= 2 * RATE_LIMIT_MAX_REQUESTS

\* an interval of 10 minutes that straddles two windows and holds 21
\* admitted calls
C4_Witness ==
    \E i \in DOMAIN rlLog :
        /\ Cardinality(AdmittedWithin(i)) > RATE_LIMIT_MAX_REQUESTS
        /\ \E j \in AdmittedWithin(i) : WindowReset(j) # WindowReset(i)

----------------------------------------------------------------------------
(* Daily macros: claims                                                    *)

\* the sum of field f over the meals of a list, by position
RECURSIVE FieldSum(_, _, _)
FieldSum(meals, f, upto) ==
    IF upto = 0 THEN 0 ELSE meals[upto][f] + FieldSum(meals, f, upto - 1)

SumOfMeals(meals) ==
    [protein  |-> FieldSum(meals, "protein", Len(meals)),
     carbs    |-> FieldSum(meals, "carbs", Len(meals)),
     fat      |-> FieldSum(meals, "fat", Len(meals)),
     calories |-> FieldSum(meals, "calories", Len(meals))]

\* C1: after every logMeal call the stored day of each date has totals equal
\* to the field-wise sum of exactly the meals of its list; eggs (18,1,15,210)
\* and toast (4,24,2,140) on one date give (22,25,17,350).
C1_TotalsAreSum ==
    \A d \in StoredDates(storage) :
        LET day == readDaily(storage, d)
        IN  /\ day.totals = SumOfMeals(day.meals)
            /\ \A i \in DOMAIN day.meals :
                   toDateString(day.meals[i].timestamp) = d
            /\ ({ day.meals[i].food : i \in DOMAIN day.meals } = {"3 eggs", "toast"}
                  /\ Len(day.meals) = 2)
               => day.totals = [protein |-> 22, carbs |-> 25, fat |-> 17,
                                calories |-> 350]

\* toast was logged last but carries the earlier timestamp
C1_Witness ==
    /\ last.op = "logMeal"
    /\ last.input.food = "toast"
    /\ LET day == last.day
       IN  /\ Len(day.meals) = 2
           /\ day.meals[1].food = "toast"
           /\ day.meals[2].food = "3 eggs"
           /\ day.meals[1].timestamp < day.meals[2].timestamp
           /\ readDaily(storage, day.date).totals =
                  [protein |-> 22, carbs |-> 25, fat |-> 17, calories |-> 350]

DatesIndex == storageGet(storage, STORAGE_KEYS.MEAL_DATES, <<>>)

\* the `n` greatest dates of a set
GreatestDates(S, n) == { d \in S : Cardinality({ e \in S : e > d }) < n }

\* C6: the dates index holds exactly the 30 greatest dates logged so far (all
\* of them while there are at most 30), strictly descending, at most 30.
C6_DatesIndexBounded ==
    /\ Len(DatesIndex) <= MAX_STORED_MEAL_HISTORY
    /\ \A i \in 1..(Len(DatesIndex) - 1) : DatesIndex[i] > DatesIndex[i + 1]
    /\ { DatesIndex[i] : i \in DOMAIN DatesIndex } =
           GreatestDates(StoredDates(storage), MAX_STORED_MEAL_HISTORY)

\* more than 30 dates were logged, the last call was for a date that is too
\* old for the index
C6_Witness ==
    /\ Cardinality(StoredDates(storage)) > MAX_STORED_MEAL_HISTORY
    /\ Len(DatesIndex) = MAX_STORED_MEAL_HISTORY
    /\ last.op = "logMeal"
    /\ last.day.date = 1
    /\ \A i \in DOMAIN DatesIndex : DatesIndex[i] # 1

----------------------------------------------------------------------------
(* Meal plans: claims                                                      *)

PlanHistory == storageGet(storage, STORAGE_KEYS.MEAL_PLAN_HISTORY, <<>>)

IdsOf(history) == { history[i].id : i \in DOMAIN history }
EntriesOf(history) == { history[i] : i \in DOMAIN history }

\* at most 5 entries, no id twice
PlanHistoryBounded ==
    /\ Len(PlanHistory) <= MAX_MEAL_PLAN_HISTORY
    /\ \A i, j \in DOMAIN PlanHistory :
           PlanHistory[i].id = PlanHistory[j].id => i = j

\* a save of a plan whose id is in the history replaces that entry: the new
\* value is stored, the old one removed, every other entry is kept
PlanSaveReplaces ==
    LET before == PlanHistory
        after == PlanHistory'
        plan == last'.input
    IN  (last'.op = "saveMealPlan" /\ plan.id \in IdsOf(before))
        => /\ Len(after) = Len(before)
           /\ EntriesOf(after) =
                  { e \in EntriesOf(before) : e.id # plan.id } \cup {plan}

\* C7: the plan history never holds two entries with the same id nor more
\* than 5 entries, and saving a plan whose id is already there replaces the
\* entry instead of adding one.
C7_PlanHistoryDedup == []PlanHistoryBounded /\ [][PlanSaveReplaces]_vars

\* a full history in which the last save replaced an entry by a new value
C7_Witness ==
    /\ last.op = "saveMealPlan"
    /\ last.replaced
    /\ Len(PlanHistory) = MAX_MEAL_PLAN_HISTORY
    /\ PlanHistory[1] = last.input

----------------------------------------------------------------------------
(* Tool operations: claims                                                 *)

\* the step just taken was a call of tool `name`
ToolStep(name) == step' # step /\ last'.op = name

StoredProfile == getProfileOrEmpty(storage)

\* C5: updateProfile is a partial update: every profile field that the
\* update does not supply keeps its previous value.
C5_PartialUpdate ==
    [][ (ToolStep("updateProfile") /\ last'.ok) =>
            \A k \in ProfileFields \ DOMAIN last'.input.val :
                FieldOf(StoredProfile', k) = FieldOf(StoredProfile, k) ]_vars

\* C8: getProgress is read-only: the content of every key is the same before
\* and after the call, for every store and every days value.
C8_GetProgressReadOnly ==
    [][ ToolStep("getProgress") => storage' = storage ]_vars

\* getProgress returned for days = 1 on a store whose index holds more dates
C8_Witness ==
    /\ last.op = "getProgress"
    /\ last.ok
    /\ "days" \in DOMAIN last.input.val
    /\ last.input.val.days.val = MinProgressDays
    /\ Len(DatesIndex) > MinProgressDays
    /\ STORAGE_KEYS.PROFILE \in DOMAIN storage

\* the inputs that violate the schema of their operation
MalformedInputs ==
    [ logMeal          |-> InvalidLogMealInputs,
      updateProfile    |-> InvalidProfileInputs,
      getProgress      |-> InvalidProgressInputs,
      saveMealPlan     |-> InvalidPlanInputs,
      saveShoppingList |-> InvalidListInputs ]

ToolNames == DOMAIN MalformedInputs

\* C9: an input that violates the schema of its operation makes the
\* operation fail before any State Store write: every key is unchanged.
C9_InvalidInputNoWrite ==
    [][ \A name \in ToolNames :
          (ToolStep(name) /\ last'.input \in MalformedInputs[name]) =>
              /\ ~last'.ok
              /\ storage' = storage ]_vars

\* a malformed shopping list was refused while an agent was current, after
\* an earlier call of the turn had written to the store
C9_Witness ==
    /\ last.op = "saveShoppingList"
    /\ last.input \in InvalidListInputs
    /\ last.agent
    /\ ~last.ok
    /\ last.error = VALIDATION_FAILED
    /\ step = MAX_STEPS
    /\ STORAGE_KEYS.SHOPPING_LISTS \in DOMAIN storage

\* C10: a tool operation invoked with no current agent fails with "GainChef
\* agent context unavailable", reads and writes nothing, and the turn stays
\* in its generation phase.
C10_NoAgentFails ==
    [][ \A name \in ToolNames :
          (/\ ToolStep(name)
           /\ ~last'.agent
           /\ last'.input \notin MalformedInputs[name]) =>
              /\ ~last'.ok
              /\ last'.error = CONTEXT_UNAVAILABLE
              /\ last'.reads = {}
              /\ storage' = storage
              /\ phase' = "Generating" ]_vars

\* a well-formed shopping list was handed to the tool with no current agent
C10_Witness ==
    /\ last.op = "saveShoppingList"
    /\ last.input \in ValidListInputs
    /\ ~last.agent
    /\ last.error = CONTEXT_UNAVAILABLE
    /\ phase = "Generating"
    /\ step > 1
    /\ storage # EmptyStorage

----------------------------------------------------------------------------
(* The chat turn: claims                                                   *)

\* the attempt has ended with an error
HasFailed(a) == a.state \in {"threw", "failed"}

FinalText ==
    LET final == response[Len(response)]
    IN  IF final.type = "error" THEN final.errorText
        ELSE response[Len(response) - 1].delta[1]

SameButRateLimit(s, t) ==
    /\ DOMAIN s \ {RATE_LIMIT_KEY} = DOMAIN t \ {RATE_LIMIT_KEY}
    /\ \A k \in DOMAIN s \ {RATE_LIMIT_KEY} : s[k] = t[k]

\* the fixed plain-text messages of the response: the chunks that carry them
FixedMessages ==
    { i \in DOMAIN response :
        /\ response[i].type = "text-delta"
        /\ "delta" \in DOMAIN response[i]
        /\ Len(response[i].delta) = 1
        /\ response[i].delta[1] \in
               {RATE_LIMIT_TEXT, NO_MODEL_TEXT, GENERATION_FAILED_TEXT} }

\* the error chunks of the response
ErrorChunks == { i \in DOMAIN response : response[i].type = "error" }

\* the response is the one plain-text message `text`
OnlyMessage(text) == response = streamPlainText(<<>>, << text >>)

Refused == rlLog # <<>> /\ ~turn.admitted

\* C14: when resolveModel yields no model, an admitted turn emits the fixed
\* apology, starts no generation attempt and dispatches no tool; a turn that
\* the rate limiter refused starts no generation either.
C14_NoModelNoGeneration ==
    /\ (modelInfo = Null \/ Refused) =>
           /\ phase # "Generating"
           /\ attempts = <<>>
           /\ turn.calls = <<>>
           /\ inFlight = <<>>
    /\ phase = "Unavailable" =>
           /\ modelInfo = Null
           /\ turn.admitted
           /\ OnlyMessage(NO_MODEL_TEXT)
    /\ (modelInfo = Null /\ turn.admitted) =>
           phase \in {"Resolving", "Unavailable"}

\* an admitted turn without a model has ended with the apology
C14_Witness ==
    /\ phase = "Unavailable"
    /\ turn.admitted
    /\ modelInfo = Null
    /\ FinalText = NO_MODEL_TEXT

\* the moves from one phase of a turn to the next
PhaseOrder ==
    { <<"Idle", "Admitting">>,
      <<"Admitting", "Resolving">>, <<"Admitting", "Rejected">>,
      <<"Resolving", "ContextBuilding">>, <<"Resolving", "Unavailable">>,
      <<"ContextBuilding", "Generating">>,
      <<"Generating", "Completed">>, <<"Generating", "Failed">> }

\* what holds in the phases of a turn: past Admitting the turn is admitted,
\* past Resolving it has a model, a refused turn is Rejected whether it has a
\* model or not, and context is read only by an admitted turn with a model
PhaseFacts ==
    /\ phase \in {"Resolving", "Unavailable", "ContextBuilding", "Generating",
                  "Completed", "Failed"} => turn.admitted
    /\ phase \in {"ContextBuilding", "Generating", "Completed", "Failed"} =>
           modelInfo # Null
    /\ Refused => phase = "Rejected"
    /\ turn.reads # {} =>
           /\ turn.admitted
           /\ modelInfo # Null
           /\ phase \in {"Generating", "Completed", "Failed"}
    /\ attempts # <<>> => turn.reads # {}

\* C15: a turn goes through Admitting, Resolving, ContextBuilding and
\* Generating in this order and ends in exactly one of Completed, Rejected,
\* Unavailable and Failed, which it never leaves; admission is decided before
\* the model is acted on, context is read only after both succeeded, and
\* Generating is entered only after both.
C15_PhaseOrder ==
    /\ []PhaseFacts
    /\ [][phase' # phase => <<phase, phase'>> \in PhaseOrder]_vars

\* a turn has gone through every phase and has ended Completed
C15_Witness ==
    /\ phase = "Completed"
    /\ turn.admitted
    /\ turn.reads # {}
    /\ step > 0

\* the tool calls and the narrations of step k of the turn
CallsOfStep(k) == { i \in DOMAIN turn.calls : turn.calls[i].step = k }
NarrationsOfStep(k) == { i \in DOMAIN turn.narrated : turn.narrated[i].step = k }

\* the text written to the response under the id
TextOf(id) ==
    response[CHOOSE i \in DOMAIN response :
                 /\ response[i].type = "text-delta"
                 /\ response[i].id = id].delta

\* how the narration of each operation begins
NarrationHead ==
    [logMeal          |-> "Done! Your ",
     updateProfile    |-> "**Profile updated!**",
     getProgress      |-> "**Here's your progress:**",
     saveMealPlan     |-> "**Your meal plan is ready!**",
     saveShoppingList |-> "**Your shopping list is ready!**"]

\* C16: every finished step that called a tool and got its result has exactly
\* one narration, and it is the narration of the operation that ran; this
\* holds for every input the operation accepts, the empty object included.
C16_NarrationPerToolStep ==
    \A k \in 1..step :
        CallsOfStep(k) # {} =>
            /\ Cardinality(NarrationsOfStep(k)) = 1
            /\ \A n \in NarrationsOfStep(k) :
                 LET first == CHOOSE i \in CallsOfStep(k) :
                                  \A j \in CallsOfStep(k) : i <= j
                 IN  TextOf(turn.narrated[n].id)[1] =
                         NarrationHead[turn.calls[first].toolName]

\* the chunk comes from the model's stream (text or tool result of a step)
FromModel(chunk) == "step" \in DOMAIN chunk

\* where the plain-text message with the id starts in the response
StartOf(id) ==
    CHOOSE i \in DOMAIN response :
        response[i].type = "text-start" /\ response[i].id = id

\* C17: the segments are emitted in the order in which they occur: the
\* narration of step k comes after every chunk of the model for the steps up
\* to k and before every chunk of the later steps, the chunks of the model
\* keep their order, and none is held back behind a later narration.
C17_InOrder ==
    /\ \A n \in DOMAIN turn.narrated :
         LET k == turn.narrated[n].step
             at == StartOf(turn.narrated[n].id)
         IN  /\ \A i \in DOMAIN response :
                  FromModel(response[i]) =>
                      (response[i].step <= k <=> i < at)
             /\ \A i \in DOMAIN inFlight : inFlight[i].step > k
    /\ \A i, j \in DOMAIN response :
         (FromModel(response[i]) /\ FromModel(response[j]) /\ i < j) =>
             response[i].step <= response[j].step

\* C18: a generation runs at most MAX_STEPS steps, a step calls at most one
\* tool, so a turn dispatches at most MAX_STEPS tools and emits at most
\* MAX_STEPS narrations; the generation ends when a step has called no tool or
\* when the steps are used up.
C18_StepBudget ==
    /\ step <= MAX_STEPS
    /\ \A k \in 1..MAX_STEPS : Cardinality(CallsOfStep(k)) <= 1
    /\ Len(turn.calls) <= MAX_STEPS
    /\ Len(turn.narrated) <= MAX_STEPS
    /\ phase = "Completed" => (CallsOfStep(step) = {} \/ step = MAX_STEPS)

\* C19: once the abort signal of the turn is raised, the turn finishes no
\* further step and dispatches no further tool (what the tools wrote before
\* stays in the store).
C19_AbortStops ==
    [][aborted => (step' = step /\ turn'.calls = turn.calls)]_vars

\* the model of the i-th attempt of the turn: modelInfo, then its fallback
ModelOf(i) == IF i = 1 THEN modelInfo ELSE modelInfo.fallback

\* C20: a generation call gets the tools if and only if its model has
\* supportsTools; without it the call gets no tools and the system prompt
\* with the manual-logging note, and no tool runs and nothing is written to
\* the store during that call.
C20_ToolsIffSupported ==
    /\ \A i \in DOMAIN attempts :
         LET info == ModelOf(i)
             options == attempts[i].options
         IN  /\ options.tools <=> info.supportsTools
             /\ options.system = IF info.supportsTools
                                 THEN << "systemPrompt" >>
                                 ELSE << "systemPrompt", MANUAL_LOGGING_NOTE >>
    /\ (attempts # <<>> /\ ~ModelOf(Len(attempts)).supportsTools) =>
           /\ turn.calls = <<>>
           /\ storage = turn.start

\* a generation on a model without tools has run a step and has ended
C20_Witness ==
    /\ attempts # <<>>
    /\ ~ModelOf(Len(attempts)).supportsTools
    /\ ~Current.options.tools
    /\ step > 0
    /\ phase = "Completed"

----------------------------------------------------------------------------
(* Shopping lists: claims                                                  *)

StoredLists(s) == storageGet(s, STORAGE_KEYS.SHOPPING_LISTS, <<>>)

\* the plan keys of the store: the active plan and the plan history
PlanKeys == { STORAGE_KEYS.MEAL_PLAN_ACTIVE, STORAGE_KEYS.MEAL_PLAN_HISTORY }

\* the input of the call names the plan that is active before the call
NamesActivePlan(s, v) ==
    /\ "planId" \in DOMAIN v.val
    /\ HasActivePlan(s)
    /\ getLatestMealPlan(s).id = v.val.planId.val

\* C21: saveShoppingList always stores the list under its id; it sets
\* shoppingListId of the active plan to that id if and only if planId is
\* given and equals the id of the active plan, and otherwise leaves the
\* active plan and the plan history as they were.
C21_BackLinkIffActivePlan ==
    [][ (ToolStep("saveShoppingList") /\ last'.ok) =>
          LET id == last'.result.id IN
            /\ id \in DOMAIN StoredLists(storage')
            /\ StoredLists(storage')[id].id = id
            /\ StoredLists(storage')[id].items = Plain(last'.input.val.items)
            /\ IF NamesActivePlan(storage, last'.input)
               THEN getLatestMealPlan(storage') =
                        [getLatestMealPlan(storage) EXCEPT
                            !.shoppingListId = id]
               ELSE \A k \in PlanKeys :
                        /\ (k \in DOMAIN storage') = (k \in DOMAIN storage)
                        /\ k \in DOMAIN storage => storage'[k] = storage[k] ]_vars

\* a list naming a plan that is no longer the active one has been stored:
\* the active plan, saved earlier in the turn under a fresh id, has no list
C21_Witness ==
    /\ last.op = "saveShoppingList"
    /\ last.ok
    /\ "planId" \in DOMAIN last.input.val
    /\ HasActivePlan(storage)
    /\ getLatestMealPlan(storage).id # last.input.val.planId.val
    /\ getLatestMealPlan(storage).shoppingListId = Undefined
    /\ last.result.id \in DOMAIN StoredLists(storage)

----------------------------------------------------------------------------
(* The worker: fetch(request, env)                                         *)

MODEL_ID == "gpt-4o-mini"

CORS_HEADERS ==
    [ allowOrigin  |-> "*",
      allowMethods |-> "GET,POST,OPTIONS",
      allowHeaders |-> "Content-Type" ]

\* new Response(body, {status, headers: CORS_HEADERS})
PlainResponse(status, body) ==
    [status |-> status, body |-> body, headers |-> CORS_HEADERS]

\* toJsonResponse(data, init): the status defaults to 200
toJsonResponse(data, status) ==
    [status |-> status, body |-> [json |-> data],
     headers |-> Spread(CORS_HEADERS, [contentType |-> "application/json"])]

\* new Date(t).toISOString()
toISOString(t) == [iso |-> t]

\* JSON null, and a request body that is not JSON at all
JsonNull == [type |-> "null", val |-> <<>>]
NotJson == [type |-> "text", val |-> <<>>]
\* a multipart form, with its fields
Form(fields) == [type |-> "form", val |-> fields]

\* the three payload types of WorkflowPayload
WorkflowTypes == { "weekly_meal_prep", "daily_macro_check", "monthly_report" }

WeeklyPayload ==
    Obj([type |-> Str("weekly_meal_prep"), userId |-> Str("user-1"),
         profileSnapshot |-> JsonNull, weekOf |-> Str("2025-01-06")])
DailyPayload ==
    Obj([type |-> Str("daily_macro_check"), userId |-> Str("user-1"),
         profileSnapshot |-> JsonNull, date |-> Str("2025-01-01")])
MonthlyPayload ==
    Obj([type |-> Str("monthly_report"), userId |-> Str("user-1"),
         profileSnapshot |-> JsonNull, month |-> Str("2025-01")])
\* a payload whose tag is none of the three
YearlyPayload ==
    Obj([type |-> Str("yearly_report"), userId |-> Str("user-1"),
         profileSnapshot |-> JsonNull, year |-> Str("2025")])

WorkflowPayloads == { WeeklyPayload, DailyPayload, MonthlyPayload }

\* the bodies a request carries
Bodies ==
    WorkflowPayloads
        \cup { YearlyPayload,
               Obj([userId |-> Str("user-1")]),         \* no type tag
               Obj(<<>>),
               Arr(<<Str("weekly_meal_prep")>>),
               Str("weekly_meal_prep"),
               Num(7),
               Num(0),
               JsonNull,
               NotJson,
               Form([audio |-> "blob"]),
               Form([note |-> "no audio"]) }

Methods == { "GET", "POST", "OPTIONS" }

AGENT_PATH == "/agents/gain-chef-agent/default"
RESET_PATH == "/api/agent/reset"

Paths ==
    { "/", "/health", "/api/transcribe", "/trigger-workflow", RESET_PATH,
      AGENT_PATH }

Requests == [method : Methods, path : Paths, body : Bodies]

\* what env.MEAL_PREP.create can do: return an instance, or throw
WorkflowIds == { "wf-1", "wf-2" }
SchedulerOutcomes ==
    { [ok |-> TRUE, id |-> id] : id \in WorkflowIds }
        \cup { [ok |-> FALSE, id |-> ""] }

\* what env.AI.run can do: return a text, return no text, or throw
AiOutcomes ==
    { [ok |-> TRUE, text |-> "two eggs"], [ok |-> TRUE, text |-> Undefined],
      [ok |-> FALSE, text |-> Undefined] }

\* what fetch leaves behind: the response, the store, the payloads handed to
\* the scheduler, and whether the request reached the agent
Handled(answer, s, created, routed) ==
    [response |-> answer, storage |-> s, created |-> created,
     routed |-> routed, cleared |-> FALSE]

\* clearAllData(): deleteAll and an empty conversation
clearAllData(s) == EmptyStorage

\* GainChefAgent.fetch(request): the reset hook, then the fetch of the library
agentFetch(s, request, wipeFails) ==
    IF request.path = RESET_PATH /\ request.method = "POST"
    THEN IF wipeFails
         THEN Handled(toJsonResponse([error |-> "Failed to clear all data"],
                                     500), s, <<>>, TRUE)
         ELSE [Handled(toJsonResponse([success |-> TRUE,
                                       message |-> "All data cleared"], 200),
                       clearAllData(s), <<>>, TRUE)
                 EXCEPT !.cleared = TRUE]
    ELSE Handled(PlainResponse(200, [agent |-> request.path]), s, <<>>, TRUE)

\* path.startsWith(prefix)
StartsWith(path, prefix) ==
    /\ Len(path) >= Len(prefix)
    /\ SubSeq(path, 1, Len(prefix)) = prefix

\* routeAgentRequest(request, env): a response for the paths of an agent,
\* nothing for every other path
IsAgentRoute(request) == StartsWith(request.path, "/agents/")

\* the /api/transcribe handler: request.formData() throws on a body that is
\* no form, env.AI.run may throw, and both land in the catch
transcribe(s, request, ai) ==
    IF request.body.type # "form"
    THEN Handled(toJsonResponse([error |-> "Failed to transcribe audio"], 500),
                 s, <<>>, FALSE)
    ELSE IF "audio" \notin DOMAIN request.body.val
    THEN Handled(toJsonResponse([error |-> "No audio file provided"], 400),
                 s, <<>>, FALSE)
    ELSE IF ~ai.ok
    THEN Handled(toJsonResponse([error |-> "Failed to transcribe audio"], 500),
                 s, <<>>, FALSE)
    ELSE Handled(toJsonResponse(
                     [text |-> IF ai.text = Undefined THEN "" ELSE ai.text,
                      success |-> TRUE], 200), s, <<>>, FALSE)

\* !body
Falsy(body) ==
    \/ body.type = "null"
    \/ body.type = "number" /\ body.val = 0
    \/ body.type = "string" /\ body.val = ""

\* typeof body
TypeOf(body) ==
    IF body.type \in { "null", "array", "object" } THEN "object" ELSE body.type

\* !body || typeof body !== "object" || !("type" in body)
InvalidWorkflowPayload(body) ==
    \/ Falsy(body)
    \/ TypeOf(body) # "object"
    \/ body.type = "array"
    \/ "type" \notin DOMAIN body.val

triggerWorkflow_ServerError(s, request, sched) ==
    IF request.body.type \in { "text", "form" }
    THEN Handled(toJsonResponse([error |-> "Failed to trigger workflow"], 400),
                 s, <<>>, FALSE)
    ELSE IF InvalidWorkflowPayload(request.body)
    THEN Handled(toJsonResponse([error |-> "Invalid workflow payload"], 400),
                 s, <<>>, FALSE)
    ELSE IF ~sched.ok
    THEN Handled(toJsonResponse([error |-> "Failed to trigger workflow"], 500),
                 s, << [params |-> request.body] >>, FALSE)
    ELSE Handled(toJsonResponse([workflowId |-> sched.id,
                                 status |-> "queued"], 202),
                 s, << [params |-> request.body] >>, FALSE)

\* the /trigger-workflow handler: request.json() throws on a body that is no
\* JSON, env.MEAL_PREP.create may throw, and both land in the catch
triggerWorkflow(s, request, sched) ==
    IF request.body.type \in { "text", "form" }
    THEN Handled(toJsonResponse([error |-> "Failed to trigger workflow"], 400),
                 s, <<>>, FALSE)
    ELSE IF InvalidWorkflowPayload(request.body)
    THEN Handled(toJsonResponse([error |-> "Invalid workflow payload"], 400),
                 s, <<>>, FALSE)
    ELSE IF ~sched.ok
    THEN Handled(toJsonResponse([error |-> "Failed to trigger workflow"], 400),
                 s, << [params |-> request.body] >>, FALSE)
    ELSE Handled(toJsonResponse([workflowId |-> sched.id,
                                 status |-> "queued"], 202),
                 s, << [params |-> request.body] >>, FALSE)

workerFetch_NotFoundOk(s, request, t, sched, ai, wipeFails) ==
    IF request.method = "OPTIONS"
    THEN Handled(PlainResponse(200, [none |-> TRUE]), s, <<>>, FALSE)
    ELSE IF request.path = "/health"
    THEN Handled(toJsonResponse([status |-> "ok", model |-> MODEL_ID,
                                 timestamp |-> toISOString(t)], 200),
                 s, <<>>, FALSE)
    ELSE IF request.path = "/api/transcribe" /\ request.method = "POST"
    THEN transcribe(s, request, ai)
    ELSE IF request.path = "/trigger-workflow" /\ request.method = "POST"
    THEN triggerWorkflow(s, request, sched)
    ELSE IF IsAgentRoute(request)
    THEN agentFetch(s, request, wipeFails)
    ELSE Handled(PlainResponse(200, [text |-> "Not found"]), s, <<>>, FALSE)

workerFetch_HealthOnGet(s, request, t, sched, ai, wipeFails) ==
    IF request.method = "OPTIONS"
    THEN Handled(PlainResponse(200, [none |-> TRUE]), s, <<>>, FALSE)
    ELSE IF request.path = "/health" /\ request.method = "GET"
    THEN Handled(toJsonResponse([status |-> "ok", model |-> MODEL_ID,
                                 timestamp |-> toISOString(t)], 200),
                 s, <<>>, FALSE)
    ELSE IF request.path = "/api/transcribe" /\ request.method = "POST"
    THEN transcribe(s, request, ai)
    ELSE IF request.path = "/trigger-workflow" /\ request.method = "POST"
    THEN triggerWorkflow(s, request, sched)
    ELSE IF IsAgentRoute(request)
    THEN agentFetch(s, request, wipeFails)
    ELSE Handled(PlainResponse(404, [text |-> "Not found"]), s, <<>>, FALSE)

\* fetch(request, env) of the worker
workerFetch(s, request, t, sched, ai, wipeFails) ==
    IF request.method = "OPTIONS"
    THEN Handled(PlainResponse(200, [none |-> TRUE]), s, <<>>, FALSE)
    ELSE IF request.path = "/health"
    THEN Handled(toJsonResponse([status |-> "ok", model |-> MODEL_ID,
                                 timestamp |-> toISOString(t)], 200),
                 s, <<>>, FALSE)
    ELSE IF request.path = "/api/transcribe" /\ request.method = "POST"
    THEN transcribe(s, request, ai)
    ELSE IF request.path = "/trigger-workflow" /\ request.method = "POST"
    THEN triggerWorkflow(s, request, sched)
    ELSE IF IsAgentRoute(request)
    THEN agentFetch(s, request, wipeFails)
    ELSE Handled(PlainResponse(404, [text |-> "Not found"]), s, <<>>, FALSE)

\* one request answered by the worker
WorkerFetch ==
    \E request \in Requests, sched \in SchedulerOutcomes, ai \in AiOutcomes,
       wipeFails \in BOOLEAN :
        LET done == workerFetch(storage, request, now, sched, ai, wipeFails)
        IN  /\ storage' = done.storage
            /\ last' = [op |-> "fetch", request |-> request,
                        response |-> done.response,
                        created |-> done.created, routed |-> done.routed,
                        cleared |-> done.cleared,
                        scheduler |-> IF done.created = <<>>
                                      THEN [ok |-> FALSE, id |-> ""]
                                      ELSE sched]
            /\ UNCHANGED <<now, rlLog, phase, step, turnVars>>

InitWorker ==
    /\ storage \in {EmptyStorage, PopulatedStorage}
    /\ now = 2 * SECONDS_PER_DAY + 500
    /\ last = NoOp
    /\ rlLog = <<>>
    /\ phase = "Idle"
    /\ step = 0
    /\ TurnIdle

NextWorker == WorkerFetch

SpecWorker == InitWorker /\ [][NextWorker]_vars

----------------------------------------------------------------------------
(* The workflow: MealPrepWorkflow.run(event, step)                         *)

COOL_DOWN_SECONDS == 10

\* step.do(name, () => record(event, ...)) and step.sleep(name, duration)
Do(name, event) == [kind |-> "do", name |-> name, event |-> event]
Sleep(name, seconds) ==
    [kind |-> "sleep", name |-> name, seconds |-> seconds]

WorkflowSteps_SleepLast(payload) ==
    LET type == payload.val.type.val
    IN  (IF type = "weekly_meal_prep"
         THEN << Do("prep-profile", "profile-snapshot"),
                 Do("generate-plan", "plan-generated"),
                 Do("queue-reminders", "reminders-scheduled") >>
         ELSE <<>>)
        \o (IF type = "daily_macro_check"
            THEN << Do("aggregate-metrics", "macros-calculated"),
                    Do("send-summary", "summary-sent") >>
            ELSE <<>>)
        \o (IF type = "monthly_report"
            THEN << Do("gather-history", "history-compiled"),
                    Do("deliver-report", "report-delivered"),
                    Sleep("cool-down", COOL_DOWN_SECONDS) >>
            ELSE <<>>)

\* the steps run awaits, one after the other: three ifs on payload.type
WorkflowSteps(payload) ==
    LET type == payload.val.type.val
    IN  (IF type = "weekly_meal_prep"
         THEN << Do("prep-profile", "profile-snapshot"),
                 Do("generate-plan", "plan-generated"),
                 Do("queue-reminders", "reminders-scheduled") >>
         ELSE <<>>)
        \o (IF type = "daily_macro_check"
            THEN << Do("aggregate-metrics", "macros-calculated"),
                    Do("send-summary", "summary-sent") >>
            ELSE <<>>)
        \o (IF type = "monthly_report"
            THEN << Do("gather-history", "history-compiled"),
                    Sleep("cool-down", COOL_DOWN_SECONDS),
                    Do("deliver-report", "report-delivered") >>
            ELSE <<>>)

\* the payloads a run is started with: what the trigger hands to the scheduler
RunPayloads == WorkflowPayloads \cup { YearlyPayload }

\* run is entered: events = [].  The clock of the model ends at MaxNow, so a
\* run starts while there is room for its cool-down.
WorkflowRun ==
    /\ IF last.op = "workflow" THEN last.status = "completed" ELSE TRUE
    /\ now + COOL_DOWN_SECONDS <= MaxNow
    /\ \E payload \in RunPayloads :
         last' = [op |-> "workflow", payload |-> payload,
                  status |-> "running", steps |-> <<>>, events |-> <<>>]
    /\ UNCHANGED <<storage, now, rlLog, phase, step, turnVars>>

\* the next awaited step: step.do runs its callback, which records an event
\* with the time of the call; step.sleep lets the duration pass
WorkflowStep ==
    /\ last.op = "workflow" /\ last.status = "running"
    /\ Len(last.steps) < Len(WorkflowSteps(last.payload))
    /\ LET next == WorkflowSteps(last.payload)[Len(last.steps) + 1]
       IN  IF next.kind = "do"
           THEN /\ last' = [last EXCEPT
                              !.steps = Append(@, next.name),
                              !.events = Append(@, [name |-> next.event,
                                                    timestamp |-> now])]
                /\ now' = now
           ELSE /\ last' = [last EXCEPT !.steps = Append(@, next.name)]
                /\ now' = now + next.seconds
    /\ UNCHANGED <<storage, rlLog, phase, step, turnVars>>

\* return { status: "completed", events }
WorkflowReturn ==
    /\ last.op = "workflow" /\ last.status = "running"
    /\ Len(last.steps) = Len(WorkflowSteps(last.payload))
    /\ last' = [last EXCEPT !.status = "completed"]
    /\ UNCHANGED <<storage, now, rlLog, phase, step, turnVars>>

NextWorkflow == WorkflowRun \/ WorkflowStep \/ WorkflowReturn

\* the engine runs every awaited step of a run, and the return after the last
SpecWorkflow ==
    /\ Init
    /\ [][NextWorkflow]_vars
    /\ WF_vars(WorkflowStep)
    /\ WF_vars(WorkflowReturn)

----------------------------------------------------------------------------
(* The worker and the workflow: claims                                     *)

\* the request just answered was `method path`
Fetched(l, method, path) ==
    /\ l.op = "fetch"
    /\ l.request.method = method
    /\ l.request.path = path

\* the answer is the JSON object `data` with status `status`
AnswersJson(l, status) ==
    /\ l.response.status = status
    /\ "json" \in DOMAIN l.response.body

ClientErrors == 400 .. 499

\* C22: the reset request as the client issues it, POST /api/agent/reset to
\* the worker, wipes every key of the session's store and the conversation
\* and is answered with a structured success; afterwards the profile is
\* empty, today's totals are zero, and the meal history, the active plan and
\* the shopping lists are empty.
C22_ResetWipes ==
    Fetched(last, "POST", RESET_PATH) =>
        /\ AnswersJson(last, 200)
        /\ "success" \in DOMAIN last.response.body.json
        /\ last.cleared
        /\ storage = EmptyStorage
        /\ getProfileOrEmpty(storage) = <<>>
        /\ getDailyMacros(storage, toDateString(now)).totals = EMPTY_TOTALS
        /\ getMealHistory(storage, MAX_STORED_MEAL_HISTORY) = <<>>
        /\ ~HasActivePlan(storage)
        /\ StoredLists(storage) = <<>>

\* a payload is malformed when it is no object, has no type tag, or has a
\* type tag that is none of the three
Malformed(body) ==
    \/ body.type # "object"
    \/ "type" \notin DOMAIN body.val
    \/ body.val.type.type # "string"
    \/ body.val.type.val \notin WorkflowTypes

\* C23: the workflow trigger answers every malformed payload with a client
\* error and hands nothing to the scheduler.
C23_MalformedRejected ==
    (Fetched(last, "POST", "/trigger-workflow")
         /\ Malformed(last.request.body)) =>
        /\ last.response.status \in ClientErrors
        /\ last.created = <<>>

\* C24: for a well-formed payload the trigger calls the scheduler's create
\* exactly once with that payload; it answers 202 with the identifier the
\* scheduler returned, and with a client error and no identifier if create
\* fails.
C24_CreateOnce ==
    (Fetched(last, "POST", "/trigger-workflow")
         /\ ~Malformed(last.request.body)) =>
        /\ last.created = << [params |-> last.request.body] >>
        /\ IF last.scheduler.ok
           THEN /\ AnswersJson(last, 202)
                /\ last.response.body.json.workflowId = last.scheduler.id
           ELSE /\ last.response.status \in ClientErrors
                /\ "json" \in DOMAIN last.response.body
                /\ "workflowId" \notin DOMAIN last.response.body.json

\* a monthly report was queued and answered with the second identifier
C24_Witness ==
    /\ Fetched(last, "POST", "/trigger-workflow")
    /\ last.request.body = MonthlyPayload
    /\ Len(last.created) = 1
    /\ last.response.status = 202
    /\ last.response.body.json.workflowId = "wf-2"

\* the events of each payload type, in their order
ExpectedEvents ==
    [ weekly_meal_prep  |-> << "profile-snapshot", "plan-generated",
                               "reminders-scheduled" >>,
      daily_macro_check |-> << "macros-calculated", "summary-sent" >>,
      monthly_report    |-> << "history-compiled", "report-delivered" >> ]

EventNames(l) == [ i \in DOMAIN l.events |-> l.events[i].name ]

IsPrefix(a, b) == Len(a) <= Len(b) /\ a = SubSeq(b, 1, Len(a))

\* a run of one of the three payload types
RunOf(l) == l.op = "workflow" /\ l.payload \in WorkflowPayloads

\* what holds in every state of a run
RunInOrder ==
    RunOf(last) =>
        LET expected == ExpectedEvents[last.payload.val.type.val]
        IN  /\ IsPrefix(EventNames(last), expected)
            /\ last.status = "completed" =>
                   /\ EventNames(last) = expected
                   /\ last.events # <<>>
            /\ last.payload = MonthlyPayload =>
                   /\ IsPrefix(last.steps, << "gather-history", "cool-down",
                                              "deliver-report" >>)
                   /\ Len(last.events) = 2 =>
                          last.events[2].timestamp
                              >= last.events[1].timestamp + COOL_DOWN_SECONDS

\* C25: a run of MealPrepWorkflow for each of the three payload types ends
\* with status "completed" and a non-empty event list in the fixed order of
\* its type (monthly: history-compiled, the cool-down sleep, then
\* report-delivered), and never runs a step of another type.
C25_RunCompletesInOrder ==
    /\ []RunInOrder
    /\ (RunOf(last) /\ last.status = "running")
           ~> (RunOf(last) /\ last.status = "completed")

\* a monthly run has completed, its second event after the cool-down
C25_Witness ==
    /\ RunOf(last)
    /\ last.payload = MonthlyPayload
    /\ last.status = "completed"
    /\ Len(last.events) = 2
    /\ last.events[2].timestamp = last.events[1].timestamp + COOL_DOWN_SECONDS
    /\ last.events[1].timestamp > 0

\* C30: the health endpoint answers every method other than OPTIONS with
\* status 200, the status value "ok", the model identifier and the time as
\* a string; it neither touches the store nor routes to the agent.
C30_Health ==
    [][ (last'.op = "fetch"
            /\ last'.request.path = "/health"
            /\ last'.request.method # "OPTIONS") =>
          /\ last'.response =
                 toJsonResponse([status |-> "ok", model |-> MODEL_ID,
                                 timestamp |-> toISOString(now)], 200)
          /\ ~last'.routed
          /\ last'.created = <<>>
          /\ storage' = storage ]_vars

\* POST /health was answered on a session that has data
C30_Witness ==
    /\ Fetched(last, "POST", "/health")
    /\ last.response.status = 200
    /\ last.response.body.json.status = "ok"
    /\ storage = PopulatedStorage

----------------------------------------------------------------------------
(* Progress over several days                                              *)

\* a session with meals on one earlier day only
OneDayStorage ==
    logMeal(EmptyStorage, Spread(MealFoods.eggs, [timestamp |-> 500]), 500,
            "uuid-a").storage

\* a session with meals on five earlier days
LongStorage ==
    LET day(s, d) == logMeal(s, Spread(MealFoods.toast,
                                       [timestamp |-> d * SECONDS_PER_DAY + 100]),
                             d * SECONDS_PER_DAY + 100, "uuid-b").storage
    IN  day(day(day(day(day(EmptyStorage, 0), 1), 2), 3), 4)

\* a turn on the day after those sessions: today has no meal yet
InitProgress ==
    /\ storage \in {EmptyStorage, OneDayStorage, PopulatedStorage, LongStorage}
    /\ now = 6 * SECONDS_PER_DAY + 500
    /\ last = NoOp
    /\ rlLog = <<>>
    /\ phase = "Idle"
    /\ step = 0
    /\ TurnIdle

NextProgress ==
    \/ BeginGeneration
    \/ ToolLogMeal
    \/ ToolGetProgress
    \/ FinishGeneration

SpecProgress == InitProgress /\ [][NextProgress]_vars

\* the days the summary lists under "Recent days"
RecentDates(l) ==
    { l.result.recentDays[j].date : j \in DOMAIN l.result.recentDays }

\* the value of days the call ran with
DaysOf(v) ==
    IF "days" \in DOMAIN v.val THEN v.val.days.val ELSE DefaultProgressDays

\* C26: getProgress with days = N (1 to 30, 3 when absent) summarises the
\* profile, today and up to N days of history: each of the N most recent
\* stored days that is not today appears in the summary.
C26_RecentDaysShown ==
    [][ (ToolStep("getProgress") /\ last'.ok) =>
          LET recent == Slice(SortDatesDesc(DatesIndex),
                              DaysOf(last'.input))
          IN  \A i \in DOMAIN recent :
                  recent[i] # toDateString(now) =>
                      recent[i] \in RecentDates(last') ]_vars

----------------------------------------------------------------------------
(* The shopping-list narration: claims                                     *)

\* the narrations of the steps whose first call was saveShoppingList
ListNarrations ==
    { n \in DOMAIN turn.narrated :
        \E c \in CallsOfStep(turn.narrated[n].step) :
            /\ \A d \in CallsOfStep(turn.narrated[n].step) : c <= d
            /\ turn.calls[c].toolName = "saveShoppingList" }

\* the items of the list that narration n is about, and its groups
ItemsOf(n) ==
    LET c == CHOOSE i \in CallsOfStep(turn.narrated[n].step) :
                 \A d \in CallsOfStep(turn.narrated[n].step) : i <= d
    IN  turn.calls[c].input.val.items.val
GroupsOf(n) == TextOf(turn.narrated[n].id)[2]

\* the meals an item is listed under
RefsOf(item) ==
    IF item.val.mealReferences.val = <<>> THEN { "Other" }
    ELSE { item.val.mealReferences.val[k].val :
             k \in DOMAIN item.val.mealReferences.val }

\* where a meal reference first occurs: the item, then the place in its
\* references
FirstItem(items, r) ==
    CHOOSE i \in DOMAIN items :
        /\ r \in RefsOf(items[i])
        /\ \A j \in 1..(i - 1) : r \notin RefsOf(items[j])
FirstPlace(items, r) ==
    LET refs == items[FirstItem(items, r)].val.mealReferences.val
    IN  IF refs = <<>> THEN 1
        ELSE CHOOSE k \in DOMAIN refs :
                 /\ refs[k].val = r
                 /\ \A j \in 1..(k - 1) : refs[j].val # r
OccursBefore(items, r, q) ==
    \/ FirstItem(items, r) < FirstItem(items, q)
    \/ /\ FirstItem(items, r) = FirstItem(items, q)
       /\ FirstPlace(items, r) < FirstPlace(items, q)

\* how often the item named `name` is listed in a group
Listed(group, name) ==
    Cardinality({ j \in DOMAIN group.items : group.items[j].name = name })

BreakfastList ==
    << ItemInput("eggs", <<Str("Breakfast")>>),
       ItemInput("milk", <<Str("Breakfast")>>), ItemInput("soap", <<>>) >>

\* C27: the shopping-list narration groups the items by meal reference:
\* an item is listed once under each of its references and once under
\* "Other" if it has none, the groups come in the order in which their
\* reference first occurs, and no item is left out; two breakfast items and
\* one item without reference give Breakfast (2 items), then Other (1 item).
C27_GroupedByMeal ==
    \A n \in ListNarrations :
        LET items == ItemsOf(n)
            groups == GroupsOf(n)
        IN  /\ \A g, h \in DOMAIN groups :
                   groups[g].mealName = groups[h].mealName => g = h
            /\ \A i \in DOMAIN items, g \in DOMAIN groups :
                   Listed(groups[g], items[i].val.name.val) =
                       IF groups[g].mealName \in RefsOf(items[i])
                       THEN 1 ELSE 0
            /\ \A i \in DOMAIN items : \A r \in RefsOf(items[i]) :
                   \E g \in DOMAIN groups : groups[g].mealName = r
            /\ \A g, h \in DOMAIN groups :
                   g < h => OccursBefore(items, groups[g].mealName,
                                         groups[h].mealName)
            /\ items = BreakfastList =>
                   /\ Len(groups) = 2
                   /\ groups[1].mealName = "Breakfast"
                   /\ Len(groups[1].items) = 2
                   /\ groups[2].mealName = "Other"
                   /\ Len(groups[2].items) = 1

\* the narration of a list whose groups are first met in the order Other,
\* Dinner, Breakfast, with one item listed under two meals
C27_Witness ==
    \E n \in ListNarrations :
        /\ Len(ItemsOf(n)) = 4
        /\ Len(GroupsOf(n)) = 3
        /\ GroupsOf(n)[1].mealName = "Other"
        /\ GroupsOf(n)[2].mealName = "Dinner"
        /\ GroupsOf(n)[3].mealName = "Breakfast"
        /\ Len(GroupsOf(n)[3].items) = 2

----------------------------------------------------------------------------
(* Reading shopping lists: getShoppingList(id?)                            *)

\* the null a reader gets when there is no list
NoList == [null |-> TRUE]

getShoppingList_Oldest(s, id) ==
    LET existing == storageGet(s, STORAGE_KEYS.SHOPPING_LISTS, <<>>)
    IN  IF id # Undefined /\ id # ""
        THEN { IF id \in DOMAIN existing THEN existing[id] ELSE NoList }
        ELSE IF DOMAIN existing = {} THEN { NoList }
        ELSE { existing[k] : k \in { x \in DOMAIN existing :
                 \A y \in DOMAIN existing :
                     existing[x].createdAt <= existing[y].createdAt } }

\* getShoppingList(id): the lists the call can return.  With an id that is
\* not falsy it is the list under that key; without one the lists are sorted
\* by createdAt, greatest first, and the first is returned.  The sort is
\* stable on the key order of the stored object, which the store of the model
\* does not keep, so lists with the same greatest createdAt are all taken.
getShoppingList(s, id) ==
    LET existing == storageGet(s, STORAGE_KEYS.SHOPPING_LISTS, <<>>)
    IN  IF id # Undefined /\ id # ""
        THEN { IF id \in DOMAIN existing THEN existing[id] ELSE NoList }
        ELSE IF DOMAIN existing = {} THEN { NoList }
        ELSE { existing[k] : k \in { x \in DOMAIN existing :
                 \A y \in DOMAIN existing :
                     existing[y].createdAt <= existing[x].createdAt } }

ListIds == { "list-1", "list-2", "list-3" }
ListTimes == { 100, 200, 300 }

\* agent.saveShoppingList(list), for a list with any id and creation time
AgentSaveShoppingList ==
    /\ \E id \in ListIds, createdAt \in ListTimes :
         LET list == [id |-> id, createdAt |-> createdAt,
                      timeframe |-> "daily",
                      items |-> << [name |-> "rice", quantity |-> "1",
                                    mealReferences |-> << "Dinner" >>] >>]
         IN  /\ storage' = saveShoppingList(storage, list)
             /\ last' = [op |-> "saveShoppingList", list |-> list]
    /\ UNCHANGED <<now, rlLog, phase, step, turnVars>>

\* agent.getShoppingList(id) and agent.getShoppingList(); the record keeps
\* the id of the list that was saved last before the call
AgentGetShoppingList ==
    /\ \E id \in ListIds \cup { Undefined } :
         \E result \in getShoppingList(storage, id) :
             last' = [op |-> "getShoppingList", id |-> id, result |-> result,
                      lastSaved |-> IF last.op = "saveShoppingList"
                                    THEN last.list.id
                                    ELSE IF last.op = "getShoppingList"
                                    THEN last.lastSaved ELSE Undefined]
    /\ UNCHANGED <<storage, now, rlLog, phase, step, turnVars>>

NextLists == AgentSaveShoppingList \/ AgentGetShoppingList

SpecLists == Init /\ [][NextLists]_vars

\* C28: getShoppingList() returns the stored list with the greatest creation
\* time, whatever the order of the saves, and nothing only when no list is
\* stored; getShoppingList(id) returns the list stored under id, or nothing.
C28_LatestByCreation ==
    last.op = "getShoppingList" =>
        LET lists == StoredLists(storage)
        IN  IF last.id = Undefined
            THEN /\ (last.result = NoList) = (DOMAIN lists = {})
                 /\ last.result # NoList =>
                        /\ last.result.id \in DOMAIN lists
                        /\ lists[last.result.id] = last.result
                        /\ \A k \in DOMAIN lists :
                               lists[k].createdAt <= last.result.createdAt
            ELSE last.result = IF last.id \in DOMAIN lists
                               THEN lists[last.id] ELSE NoList

\* three lists are stored and the one returned is not the one saved last
C28_Witness ==
    /\ last.op = "getShoppingList"
    /\ last.id = Undefined
    /\ DOMAIN StoredLists(storage) = ListIds
    /\ last.result # NoList
    /\ last.result.id = "list-1"
    /\ last.lastSaved = "list-2"

----------------------------------------------------------------------------
(* Stored meals: claims                                                    *)

\* how often the meal m is in the list
Count(meals, m) == Cardinality({ i \in DOMAIN meals : meals[i] = m })

\* every meal of every stored day of s is still a meal of that day in t
MealsKept(s, t) ==
    \A d \in StoredDates(s) :
        /\ d \in StoredDates(t)
        /\ \A i \in DOMAIN readDaily(s, d).meals :
               Count(readDaily(t, d).meals, readDaily(s, d).meals[i])
                   >= Count(readDaily(s, d).meals, readDaily(s, d).meals[i])

OrderedByTime(meals) ==
    \A i, j \in DOMAIN meals : i < j => meals[i].timestamp <= meals[j].timestamp

\* C29: a stored meal is immutable: whatever operation runs, every meal
\* stored for a date stays in the list of that date with the same id,
\* timestamp, food and macros; only logMeal adds a meal, it adds exactly one,
\* and the list it writes is ordered by timestamp.
C29_MealsImmutable ==
    [][ /\ MealsKept(storage, storage')
        /\ StoredMealCount(storage') # StoredMealCount(storage) =>
               /\ last'.op = "logMeal"
               /\ last'.ok
        /\ (last'.op = "logMeal" /\ last'.ok
                /\ (step' # step \/ storage' # storage)) =>
               StoredMealCount(storage') = StoredMealCount(storage) + 1
        /\ \A d \in StoredDates(storage') :
               OrderedByTime(readDaily(storage', d).meals)
      ]_vars

\* a meal was logged on a day that already had one, and a later operation of
\* the turn stored a shopping list: the day still holds both meals
C29_Witness ==
    /\ last.op = "saveShoppingList"
    /\ last.ok
    /\ step = MAX_STEPS
    /\ HasDaily(storage, toDateString(now))
    /\ Len(readDaily(storage, toDateString(now)).meals) = 2
    /\ readDaily(storage, toDateString(now)).meals[1].id = "uuid-a"
    /\ readDaily(storage, toDateString(now)).meals[2].timestamp = now

----------------------------------------------------------------------------
(* Unknown routes: claims                                                  *)

\* the request matches one of the routes the worker answers itself
OwnRoute(request) ==
    \/ request.method = "OPTIONS"
    \/ request.path = "/health"
    \/ request.path = "/api/transcribe" /\ request.method = "POST"
    \/ request.path = "/trigger-workflow" /\ request.method = "POST"

\* C31: a request that matches none of the worker's own routes and is not
\* routed to an agent is answered with status 404 and the body "Not found",
\* and no session state is touched.
C31_NotFound ==
    [][ (last'.op = "fetch" /\ ~OwnRoute(last'.request) /\ ~last'.routed) =>
          /\ last'.response = PlainResponse(404, [text |-> "Not found"])
          /\ last'.created = <<>>
          /\ ~last'.cleared
          /\ storage' = storage ]_vars

\* GET /trigger-workflow, which is a route for POST only, was answered 404
\* on a session that has data
C31_Witness ==
    /\ Fetched(last, "GET", "/trigger-workflow")
    /\ last.response.status = 404
    /\ ~last.routed
    /\ storage = PopulatedStorage

----------------------------------------------------------------------------
(* Macro targets of the profile: claims                                    *)

\* the stored macro targets: <<targets>>, or <<>> when there are none
StoredTargets(s) == FieldOf(getProfileOrEmpty(s), "macroTargets")

\* C32: when updateProfile supplies macroTargets with some of protein,
\* carbs, fat and calories only, each macro target that is not supplied
\* keeps the value the profile held before the call.
C32_PartialTargets ==
    [][ (/\ ToolStep("updateProfile")
         /\ last'.ok
         /\ "macroTargets" \in DOMAIN last'.input.val
         /\ StoredTargets(storage) # <<>>) =>
            /\ StoredTargets(storage') # <<>>
            /\ \A f \in MacroFields \ DOMAIN last'.input.val.macroTargets.val :
                   StoredTargets(storage')[1][f] = StoredTargets(storage)[1][f]
      ]_vars

----------------------------------------------------------------------------
(* The shopping list of the context: onChatMessage, context reads          *)

NO_SHOPPING_LIST == "No shopping list generated."

\* formatShoppingList(list): the fixed text for null, else the head line, the
\* first five items and the count of the others
formatShoppingList(list) ==
    IF list = NoList THEN [text |-> NO_SHOPPING_LIST]
    ELSE [timeframe |-> list.timeframe,
          items |-> Len(list.items),
          topItems |-> Slice([ i \in DOMAIN list.items |->
                                 [name |-> list.items[i].name,
                                  quantity |-> list.items[i].quantity] ], 5),
          more |-> IF Len(list.items) > 5 THEN Len(list.items) - 5 ELSE 0]

\* activePlan?.shoppingListId, when it is truthy
PlanLink(s) ==
    IF HasActivePlan(s)
           /\ getLatestMealPlan(s).shoppingListId # Undefined
           /\ getLatestMealPlan(s).shoppingListId # ""
    THEN getLatestMealPlan(s).shoppingListId
    ELSE Undefined

contextShoppingList_IgnoresLink(s) == getShoppingList(s, Undefined)

\* activePlan?.shoppingListId ? getShoppingList(activePlan.shoppingListId)
\*                            : getShoppingList()
contextShoppingList(s) == getShoppingList(s, PlanLink(s))

\* the links a saved plan can carry: none, a list id, an id of no list
PlanLinks == ListIds \cup { Undefined, "list-9" }

\* agent.saveMealPlan(plan) for a plan with any link
AgentSaveLinkedPlan ==
    /\ \E link \in PlanLinks :
         LET plan == [id |-> "plan-1", createdAt |-> now,
                      timeframe |-> "daily",
                      days |-> <<PlanDay("2025-01-01")>>,
                      shoppingListId |-> link]
         IN  /\ storage' = saveMealPlan(storage, plan)
             /\ last' = [op |-> "saveMealPlan", input |-> plan, ok |-> TRUE]
    /\ UNCHANGED <<now, rlLog, phase, step, turnVars>>

\* the context reads of a chat turn: the shopping list handed to
\* buildSystemPrompt and its section of the prompt
ReadContext ==
    /\ \E list \in contextShoppingList(storage) :
         last' = [op |-> "context", shoppingList |-> list,
                  shoppingSection |-> formatShoppingList(list), ok |-> TRUE]
    /\ UNCHANGED <<storage, now, rlLog, phase, step, turnVars>>

NextContext == AgentSaveShoppingList \/ AgentSaveLinkedPlan \/ ReadContext

SpecContext == Init /\ [][NextContext]_vars

\* C33: the context builder gets the list linked from the active plan when
\* the plan has a shoppingListId, and otherwise the most recently created
\* list; a link to no stored list is tolerated: the context then renders "no
\* shopping list" and the request goes on.
C33_ContextList ==
    last.op = "context" =>
        LET lists == StoredLists(storage)
            link == PlanLink(storage)
        IN  /\ last.ok
            /\ IF link # Undefined
               THEN IF link \in DOMAIN lists
                    THEN last.shoppingList = lists[link]
                    ELSE /\ last.shoppingList = NoList
                         /\ last.shoppingSection = [text |-> NO_SHOPPING_LIST]
               ELSE IF DOMAIN lists = {}
                    THEN last.shoppingList = NoList
                    ELSE /\ last.shoppingList # NoList
                         /\ last.shoppingList.id \in DOMAIN lists
                         /\ lists[last.shoppingList.id] = last.shoppingList
                         /\ \A k \in DOMAIN lists :
                                lists[k].createdAt
                                    <= last.shoppingList.createdAt

\* the active plan links a list that is not stored while other lists are:
\* the context has no list
C33_Witness ==
    /\ last.op = "context"
    /\ PlanLink(storage) = "list-9"
    /\ DOMAIN StoredLists(storage) # {}
    /\ last.shoppingList = NoList
    /\ last.shoppingSection = [text |-> NO_SHOPPING_LIST]

----------------------------------------------------------------------------
(* cleanupMessages                                                         *)

MaxMessages == 3        \* messages of the conversation handed to the helper

\* isToolUIPart(part): the type of a tool part starts with "tool-"
isToolUIPart(part) == StartsWith(part.type, "tool-")

cleanupMessages_FirstPartOnly(messages) ==
    LET hasIncompleteToolCall(message) ==
            /\ message.parts # <<>>
            /\ isToolUIPart(message.parts[1])
            /\ message.parts[1].state = "input-streaming"
        keep(message) ==
            IF "parts" \notin DOMAIN message THEN TRUE
            ELSE ~hasIncompleteToolCall(message)
    IN  SelectSeq(messages, keep)

\* cleanupMessages(messages)
cleanupMessages(messages) ==
    LET hasIncompleteToolCall(message) ==
            \E i \in DOMAIN message.parts :
                /\ isToolUIPart(message.parts[i])
                /\ message.parts[i].state = "input-streaming"
        keep(message) ==
            IF "parts" \notin DOMAIN message THEN TRUE
            ELSE ~hasIncompleteToolCall(message)
    IN  SelectSeq(messages, keep)

\* the parts of a message: text, and a logMeal call whose input is still
\* streaming or whose output is there
TextPart == [type |-> "text", state |-> "done"]
StreamingToolPart == [type |-> "tool-logMeal", state |-> "input-streaming"]
FinishedToolPart == [type |-> "tool-logMeal", state |-> "output-available"]

\* the messages of a conversation: one without parts, and the part lists
MessageChoices ==
    { [role |-> "user"] }
        \cup { [role |-> "assistant", parts |-> parts] :
                 parts \in { <<>>, << TextPart >>, << StreamingToolPart >>,
                             << FinishedToolPart >>,
                             << TextPart, StreamingToolPart >>,
                             << StreamingToolPart, TextPart >>,
                             << TextPart, FinishedToolPart >> } }

\* a message joins the conversation
ReceiveMessage ==
    /\ LET messages == IF last.op = "messages" THEN last.messages ELSE <<>>
       IN  /\ Len(messages) < MaxMessages
           /\ \E message \in MessageChoices :
                last' = [op |-> "messages",
                         messages |-> Append(messages, message)]
    /\ UNCHANGED <<storage, now, rlLog, phase, step, turnVars>>

\* cleanupMessages(this.messages), and the helper applied to its own result
CleanMessages ==
    /\ last.op = "messages"
    /\ last' = [op |-> "cleanup", messages |-> last.messages,
                cleaned |-> cleanupMessages(last.messages),
                again |-> cleanupMessages(cleanupMessages(last.messages))]
    /\ UNCHANGED <<storage, now, rlLog, phase, step, turnVars>>

NextCleanup == ReceiveMessage \/ CleanMessages

SpecCleanup == Init /\ [][NextCleanup]_vars

\* the message has a tool part whose input is still streaming
Incomplete(message) ==
    /\ "parts" \in DOMAIN message
    /\ \E part \in { message.parts[i] : i \in DOMAIN message.parts } :
           /\ Len(part.type) > 5
           /\ SubSeq(part.type, 1, 5) = "tool-"
           /\ part.state = "input-streaming"

\* C34: cleanupMessages returns exactly the messages that have no tool part
\* in state "input-streaming" (a message without parts is kept), in their
\* original order, and applying it to its result changes nothing.
C34_CleanupFilters ==
    last.op = "cleanup" =>
        LET kept == { i \in DOMAIN last.messages :
                        ~Incomplete(last.messages[i]) }
            nth(k) == CHOOSE i \in kept :
                          Cardinality({ j \in kept : j <= i }) = k
        IN  /\ Len(last.cleaned) = Cardinality(kept)
            /\ \A k \in DOMAIN last.cleaned :
                   last.cleaned[k] = last.messages[nth(k)]
            /\ last.again = last.cleaned

\* of three messages the middle one, with a streaming tool part after its
\* text, was dropped; the message without parts was kept
C34_Witness ==
    /\ last.op = "cleanup"
    /\ Len(last.messages) = 3
    /\ last.messages[1] = [role |-> "user"]
    /\ last.messages[2] = [role |-> "assistant",
                            parts |-> << TextPart, StreamingToolPart >>]
    /\ last.cleaned = << last.messages[1], last.messages[3] >>

----------------------------------------------------------------------------
(* Active plan and plan history: claims                                    *)

\* C35: the active plan is the first entry of the plan history: after every
\* saveMealPlan, and after every saveShoppingList that back-links, the head
\* of the history is the value stored under the active-plan key (same id,
\* days and shoppingListId).
C35_ActiveIsHistoryHead ==
    /\ HasActivePlan(storage) = (PlanHistory # <<>>)
    /\ HasActivePlan(storage) =>
           /\ PlanHistory[1] = getLatestMealPlan(storage)
           /\ PlanHistory[1].id = getLatestMealPlan(storage).id
           /\ PlanHistory[1].days = getLatestMealPlan(storage).days
           /\ PlanHistory[1].shoppingListId
                  = getLatestMealPlan(storage).shoppingListId

\* a list was back-linked to a plan that was saved again after another one:
\* the history holds two plans and its head carries the link
C35_Witness ==
    /\ last.op = "saveShoppingList"
    /\ last.ok
    /\ HasActivePlan(storage)
    /\ getLatestMealPlan(storage).shoppingListId = last.result.id
    /\ Len(PlanHistory) = 2
    /\ PlanHistory[1].id = "plan-1"
    /\ PlanHistory[2].shoppingListId = Undefined

----------------------------------------------------------------------------
(* Meal identifiers: claims                                                *)

\* the places of the stored meals, as (date, position) pairs
MealPlaces(s) ==
    UNION { { <<d, i>> : i \in DOMAIN readDaily(s, d).meals } :
              d \in StoredDates(s) }

StoredMealAt(s, ref) == readDaily(s, ref[1]).meals[ref[2]]

\* C36: every MealLog stored through the logMeal tool has a non-empty
\* identifier, and no two MealLogs of the store share an identifier.
C36_MealIdsUnique ==
    [][ (ToolStep("logMeal") /\ last'.ok) =>
          LET day == readDaily(storage', toDateString(now))
          IN  /\ \A i \in DOMAIN day.meals :
                     day.meals[i].timestamp = now => day.meals[i].id # ""
              /\ \A p, q \in MealPlaces(storage') :
                     p # q => StoredMealAt(storage', p).id
                                  # StoredMealAt(storage', q).id
      ]_vars

----------------------------------------------------------------------------
(* Requests of one session that race: logMeal and clearAllData, one await  *)
(* at a time.  Here phase[p] is the place of request p in its call (0: no  *)
(* call in progress) and turn[p] holds what the call has read so far.      *)

MaxLanes == 2        \* requests of the session that run at once

Lanes == 1..MaxLanes

\* the meals of the racing calls: two on day 1 and one on day 2
RaceMeals ==
    { Spread(MealFoods.eggs, [timestamp |-> SECONDS_PER_DAY + 100]),
      Spread(MealFoods.toast, [timestamp |-> SECONDS_PER_DAY + 200]),
      Spread(MealFoods.toast, [timestamp |-> 2 * SECONDS_PER_DAY]) }

\* the awaits of logMeal in program order; updateMealDates is a read of the
\* dates index followed by a write of it
LogMealSteps_IndexFirst ==
    <<"readDaily", "readDates", "writeDates", "writeDaily">>

LogMealSteps == <<"readDaily", "writeDaily", "readDates", "writeDates">>

PlaceOf(name) == CHOOSE k \in DOMAIN LogMealSteps : LogMealSteps[k] = name

\* request p is about to run the await called name
AtStep(p, name) == phase[p] # 0 /\ LogMealSteps[phase[p]] = name

\* the day record of request p is written and its index write is still to come
BetweenWrites(p) ==
    /\ phase[p] # 0
    /\ PlaceOf("writeDaily") < phase[p]
    /\ phase[p] <= PlaceOf("writeDates")

\* no call in progress
NoCall == [op |-> "none"]

\* request p has finished its await: the next one, or the end of the call
Advance(p, locals) ==
    LET next == IF phase[p] = 0 THEN 2 ELSE phase[p] + 1
        done == next > Len(LogMealSteps)
    IN  /\ phase' = [phase EXCEPT ![p] = IF done THEN 0 ELSE next]
        /\ turn' = [turn EXCEPT ![p] = IF done THEN NoCall ELSE locals]

\* logMeal, up to the end of `await this.readDaily(date)`: the updated day is
\* computed from the record that was read
LogMealReadDaily(p) ==
    /\ phase[p] = 0
    /\ StoredMealCount(storage) + Cardinality({ q \in Lanes : phase[q] # 0 })
           < MaxMeals
    /\ \E meal \in RaceMeals :
         Advance(p, [op |-> "logMeal",
                     updated |-> logMeal(storage, meal, now, "uuid-a").day])
    /\ UNCHANGED <<storage, now, last, rlLog, step, modelInfo, attempts,
                   response, inFlight, aborted>>

\* await this.writeDaily(updated)
LogMealWriteDaily(p) ==
    /\ AtStep(p, "writeDaily")
    /\ storage' = writeDaily(storage, turn[p].updated)
    /\ Advance(p, turn[p])
    /\ UNCHANGED <<now, last, rlLog, step, modelInfo, attempts, response,
                   inFlight, aborted>>

\* updateMealDates(date), up to the end of its storageGet: the ordered index
\* is computed from the index that was read
LogMealReadDates(p) ==
    /\ AtStep(p, "readDates")
    /\ Advance(p, Spread(turn[p],
                         [ordered |->
                             storageGet(updateMealDates(storage,
                                                        turn[p].updated.date),
                                        STORAGE_KEYS.MEAL_DATES, <<>>)]))
    /\ UNCHANGED <<storage, now, last, rlLog, step, modelInfo, attempts,
                   response, inFlight, aborted>>

\* updateMealDates(date): await this.storagePut(MEAL_DATES, ordered)
LogMealWriteDates(p) ==
    /\ AtStep(p, "writeDates")
    /\ storage' = storagePut(storage, STORAGE_KEYS.MEAL_DATES, turn[p].ordered)
    /\ Advance(p, turn[p])
    /\ UNCHANGED <<now, last, rlLog, step, modelInfo, attempts, response,
                   inFlight, aborted>>

\* a reset so far fell between the two writes of a logMeal call
ResetCut == IF last.op = "clearAllData" THEN last.cut ELSE FALSE

\* clearAllData() of another request of the session, at any moment
RaceClearAllData ==
    /\ storage # EmptyStorage
    /\ storage' = clearAllData(storage)
    /\ last' = [op |-> "clearAllData",
                cut |-> ResetCut \/ \E p \in Lanes : BetweenWrites(p)]
    /\ UNCHANGED <<now, rlLog, phase, step, turnVars>>

InitMealRace ==
    /\ storage = EmptyStorage
    /\ now = 0
    /\ last = NoOp
    /\ rlLog = <<>>
    /\ phase = [p \in Lanes |-> 0]
    /\ step = 0
    /\ modelInfo = Null
    /\ attempts = <<>>
    /\ response = <<>>
    /\ inFlight = <<>>
    /\ aborted = FALSE
    /\ turn = [p \in Lanes |-> NoCall]

NextMealRace ==
    \/ \E p \in Lanes : LogMealReadDaily(p)
    \/ \E p \in Lanes : LogMealWriteDaily(p)
    \/ \E p \in Lanes : LogMealReadDates(p)
    \/ \E p \in Lanes : LogMealWriteDates(p)
    \/ RaceClearAllData

SpecMealRace == InitMealRace /\ [][NextMealRace]_vars

----------------------------------------------------------------------------
(* Racing logMeal calls: claims                                            *)

\* every date of the dates index has a day record of that date
IndexedDatesStored ==
    \A i \in DOMAIN DatesIndex :
        /\ HasDaily(storage, DatesIndex[i])
        /\ readDaily(storage, DatesIndex[i]).date = DatesIndex[i]

C38_RaceKeepsTotals ==
    \A d \in StoredDates(storage) :
        readDaily(storage, d).totals = SumOfMeals(readDaily(storage, d).meals)

\* the day record of request p is written and no reset has run since
Wrote(p) ==
    /\ phase[p] > PlaceOf("writeDaily")
    /\ ~ResetCut

\* two calls for one date each read that no record was stored and each wrote
\* its record: the stored day lists the meal of the later writer only
C38_Witness ==
    \E p, q \in Lanes :
        /\ p # q
        /\ Wrote(p)
        /\ Wrote(q)
        /\ turn[p].updated.date = turn[q].updated.date
        /\ Len(turn[p].updated.meals) = 1
        /\ Len(turn[q].updated.meals) = 1
        /\ turn[p].updated.meals # turn[q].updated.meals
        /\ readDaily(storage, turn[p].updated.date) = turn[p].updated
        /\ readDaily(storage, turn[p].updated.date).totals
               = SumOfMeals(turn[p].updated.meals)

----------------------------------------------------------------------------
(* Requests of one session that race: bumpRateLimit, one await at a time    *)

\* bumpRateLimit, up to the end of its storageGet: the outcome and the record
\* to store are computed from the record that was read
AdmitRead(p) ==
    /\ phase[p] = 0
    /\ Len(rlLog) + Cardinality({ q \in Lanes : phase[q] # 0 }) < MaxCalls
    /\ LET r == bumpRateLimit(storage, now)
       IN  turn' = [turn EXCEPT ![p] =
                       [op |-> "bumpRateLimit", at |-> now, ok |-> r.ok,
                        record |-> r.storage[RATE_LIMIT_KEY]]]
    /\ phase' = [phase EXCEPT ![p] = 1]
    /\ UNCHANGED <<storage, now, last, rlLog, step, modelInfo, attempts,
                   response, inFlight, aborted>>

\* bumpRateLimit: await this.storagePut(key, record), and the return
AdmitWrite(p) ==
    /\ phase[p] = 1
    /\ storage' = storagePut(storage, RATE_LIMIT_KEY, turn[p].record)
    /\ rlLog' = Append(rlLog, [at |-> turn[p].at, ok |-> turn[p].ok,
                               reset |-> turn[p].record.reset])
    /\ phase' = [phase EXCEPT ![p] = 0]
    /\ turn' = [turn EXCEPT ![p] = NoCall]
    /\ UNCHANGED <<now, last, step, modelInfo, attempts, response, inFlight,
                   aborted>>

\* the clock passes the reset time of a window that began at `now`
WindowPasses ==
    /\ now + RATE_LIMIT_WINDOW_MS + 1 <= MaxNow
    /\ now' = now + RATE_LIMIT_WINDOW_MS + 1
    /\ UNCHANGED <<storage, last, rlLog, phase, step, turnVars>>

NextAdmitRace ==
    \/ \E p \in Lanes : AdmitRead(p)
    \/ \E p \in Lanes : AdmitWrite(p)
    \/ WindowPasses

SpecAdmitRace == InitMealRace /\ [][NextAdmitRace]_vars

\* the calls that returned true between the start and the reset time of the
\* window of call i
AdmittedInWindowOf(i) ==
    { j \in DOMAIN rlLog :
        /\ rlLog[j].ok
        /\ rlLog[i].reset - RATE_LIMIT_WINDOW_MS <= rlLog[j].at
        /\ rlLog[j].at <= rlLog[i].reset }

\* C39: in every interleaving of concurrent admit() calls of one session
\* (each a read of the rate-limit record followed by a write), the number of
\* calls that return true between a window's start and its reset time never
\* exceeds 20.
C39_RaceCap ==
    \A i \in DOMAIN rlLog :
        Cardinality(AdmittedInWindowOf(i)) <= RATE_LIMIT_MAX_REQUESTS

----------------------------------------------------------------------------
(* Chat requests and resets of one session, one after the other            *)

\* the admission of one chat request: the whole of bumpRateLimit
AdmitChat ==
    /\ Len(rlLog) < MaxCalls
    /\ LET r == bumpRateLimit(storage, now)
       IN  /\ storage' = r.storage
           /\ rlLog' = Append(rlLog, [at |-> now, ok |-> r.ok,
                                      reset |-> r.storage[RATE_LIMIT_KEY].reset])
           /\ last' = [op |-> "bumpRateLimit", at |-> now, ok |-> r.ok]
    /\ UNCHANGED <<now, phase, step, turnVars>>

\* clearAllData(): the reset of the session
ResetSession ==
    /\ storage # EmptyStorage
    /\ storage' = clearAllData(storage)
    /\ last' = [op |-> "clearAllData"]
    /\ UNCHANGED <<now, rlLog, phase, step, turnVars>>

NextResetBudget == AdmitChat \/ ResetSession \/ Tick

SpecResetBudget == Init /\ [][NextResetBudget]_vars

====
